---- MODULE Spec2Model ----
(***************************************************************************)
(* Backend connection core of the codis proxy: the BackendConn worker      *)
(* (run / loopWriter / loopReader / delayBeforeRetry / KeepAlive / Close), *)
(* the sharedBackendConn reference counting and the worker selection.      *)
(***************************************************************************)
EXTENDS Integers, Sequences, FiniteSets, TLC

\* ------------------------------------------------------------- bounds
\* Requests ever created (router PushBack plus KeepAlive probes).
MaxReq == 2
\* Capacity of the input channel in the model (make(chan *Request, 1024)).
InputCap == 1
\* config.BackendMaxPipeline: capacity of a round's tasks channel.
MaxPipeline == 2
\* Rounds that manage to connect (each starts one loopReader).
MaxRounds == 2
\* Capacity of keepAliveCallback in the model (make(chan func(), 128)).
CallbackCap == 1
\* Requests a router submits when it fills the pipeline of a never-closed
\* worker (SpecPipeline).
MaxBurst == 3
MaxSubmit == 1

\* ------------------------------------------------- program constants
stateConnected == 1
stateDataStale == 2
\* delayBeforeRetry: "if bc.retry.fails <= 10"
RetryLimit == 10

Nil == [type |-> "nil", value |-> <<>>, to |-> 0]

ReqIds == 1 .. (IF MaxBurst > MaxReq THEN MaxBurst ELSE MaxReq)
Rounds == 1 .. MaxRounds

VARIABLES
    \* Requests: attributes, response slot, error slot, completions, Batch counter
    reqs, nreq,
    \* BackendConn fields
    input, inputClosed, closed, state, fails,
    \* goroutine run(): position and locals of run / loopWriter / delayBeforeRetry
    pc, wr, werr, drainI, round,
    \* per round: tasks channel, its socket, and the loopReader goroutine
    tasks, tasksClosed, wire, rpc, rr,
    \* a router goroutine inside PushBack
    ppc, pr,
    \* a goroutine inside Close
    cpc,
    \* a goroutine inside KeepAlive, the keepAliveCallback channel and its consumer
    kpc, km, cbq, cbpc, cbm,
    \* how often each round's socket has been closed, the number of sockets
    \* dialled and not closed since, and the round in which each INFO probe
    \* of KeepAlive was issued
    socks, nopen, probeRound,
    \* sharedBackendConnPool.pool, the sharedBackendConns created, their workers,
    \* a Release in progress, and the handle whose call panicked
    pool, shared, nshared, workers, rel, panicked,
    \* a call of sharedBackendConn.BackendConn: conns[db], seed, must, result
    sconns, sseed, smust, sres,
    \* a bufio2.Reader over a byte stream: the Reader with its underlying
    \* io.Reader, the last call's return, the stream it was built on, and the
    \* bytes its successful calls have returned
    reader, rret, rsrc, rgot,
    \* a bufio2.Writer: the Writer, with its underlying
    \* io.Writer, all bytes its callers wrote, and the last call's return
    writer, wall, wret,
    \* a redis.Decoder and the last Decode / DecodeMultiBulk return
    dec, dret,
    \* the slices made so far, their number, and the two global counters
    cgo, ncgo, allocOffheapBytes, maxOffheapBytes

reqVars == <<reqs, nreq>>
chanVars == <<input, inputClosed>>
runVars == <<pc, wr, werr, drainI, round, fails>>
readerVars == <<tasks, tasksClosed, wire, rpc, rr>>
routerVars == <<ppc, pr>>
closeVars == <<closed, cpc>>
kaVars == <<kpc, km>>
cbVars == <<cbq, cbpc, cbm>>

poolVars == <<pool, shared, nshared, workers, rel, panicked>>
selVars == <<sconns, sseed, smust, sres>>
rdVars == <<reader, rret, rsrc, rgot>>
wrVars == <<writer, wall, wret>>
decVars == <<dec, dret>>
cgoVars == <<cgo, ncgo, allocOffheapBytes, maxOffheapBytes>>
libVars == <<rdVars, wrVars, decVars, cgoVars>>
sockVars == <<socks, nopen, probeRound>>
restVars == <<poolVars, selVars, libVars>>
otherVars == <<restVars, sockVars>>
connVars == <<reqs, nreq, input, inputClosed, closed, state, fails, pc, wr, werr,
              drainI, round, tasks, tasksClosed, wire, rpc, rr, ppc, pr,
              cpc, kpc, km, cbq, cbpc, cbm, socks, nopen, probeRound>>

coreVars == <<connVars, poolVars, selVars>>
vars == <<coreVars, libVars>>

\* ------------------------------------------------------ byte strings
\* A byte string is a sequence of tokens; bytes.HasPrefix compares the
\* leading tokens.
HasPrefix(s, p) == Len(s) >= Len(p) /\ SubSeq(s, 1, Len(p)) = p

errRespMasterDown == <<"MASTERDOWN">>
errRespLoading == <<"LOADING">>

\* ------------------------------------------------------ RESP replies
\* A decoded reply: its type tag and payload, and (for the record) the
\* request the backend produced it for.
RespString(v, to) == [type |-> "string", value |-> v, to |-> to]
RespError(v, to) == [type |-> "error", value |-> v, to |-> to]
RespBulk(v, to) == [type |-> "bulk", value |-> v, to |-> to]

IsError(resp) == resp.type = "error"
IsBulkBytes(resp) == resp.type = "bulk"

\* INFO payloads: a sequence of lines (split on "\n"), each a token sequence.
InfoUp ==
    << <<"# Replication", "\r">>,
       <<"master_link_status", ":", "up", "\r">>,
       <<"loading", ":", "0", "\r">> >>
InfoDown ==
    << <<"master_link_status", ":", "down", "\r">>,
       <<"loading", ":", "0", "\r">> >>
InfoLoading ==
    << <<"role", ":", "master", "\r">>,
       <<" ", "loading", ":", "1", "\r">> >>

\* What the backend may answer to a request of each kind.
CommonReplies(to) ==
    { RespString(<<"OK">>, to),
      RespError(<<"ERR", "LOADING">>, to),
      RespError(<<"MASTERDOWN", "Link with MASTER is down">>, to),
      RespError(<<"LOADING", "Redis is loading">>, to) }
InfoReplies(to) ==
    { RespBulk(InfoUp, to), RespBulk(InfoDown, to), RespBulk(InfoLoading, to) }
Replies(kind, to) ==
    IF kind = "info" THEN CommonReplies(to) \cup InfoReplies(to)
    ELSE CommonReplies(to)

\* ---------------------------------------------------------- requests
NoReq == [kind |-> "none", batch |-> FALSE, broken |-> FALSE,
          Resp |-> Nil, Err |-> "nil", done |-> 0, wg |-> 0]
NewReq(kind, batch, broken) ==
    [kind |-> kind, batch |-> batch, broken |-> broken,
     Resp |-> Nil, Err |-> "nil", done |-> 0, wg |-> 0]

\* Request shapes the router submits: <<r.Batch != nil, r.IsReadOnly() &&
\* r.IsBroken()>>.  Requests without a Batch are the PINGs of KeepAlive.
ReqShapes == { <<TRUE, FALSE>>, <<TRUE, TRUE>> }

\* setResponse: r.Resp, r.Err = resp, err; Group.Done / Batch.Done.
setResponse(rs, r, resp, err) ==
    [rs EXCEPT ![r].Resp = resp, ![r].Err = err, ![r].done = @ + 1,
               ![r].wg = IF rs[r].batch THEN @ - 1 ELSE @]

BatchAdd(rs, r) == [rs EXCEPT ![r].wg = IF rs[r].batch THEN @ + 1 ELSE @]


\* ------------------------------------------------------------- sockets
\* A socket as the worker sees it: whether redis.DialTimeout returned it,
\* and how many times Close has been called on it.
Dialled == [dialled |-> TRUE, closes |-> 0]

\* A Close that leaves the socket open.
connClose_leak(c) == c

\* "c.Close()" on the socket of a round or of a rejected dial.
connClose(c) == [c EXCEPT !.closes = @ + 1]

\* The socket of round k: dialled once the round has begun.
roundSocket(k) == [dialled |-> k <= round, closes |-> socks[k]]

\* ------------------------------------------------------------ PushBack
\* PushBack: "if r.Batch != nil { r.Batch.Add(1) }", then "bc.input <- r".
\* The send blocks while the channel is full; a send on the closed channel
\* panics the process, so it is not a step of the worker.
PushBackAdd ==
    /\ ppc = "idle"
    /\ nreq < MaxReq
    /\ \E shape \in ReqShapes :
         reqs' = BatchAdd([reqs EXCEPT ![nreq + 1] =
                              NewReq("cmd", shape[1], shape[2])], nreq + 1)
    /\ nreq' = nreq + 1
    /\ pr' = nreq + 1
    /\ ppc' = "send"
    /\ UNCHANGED <<chanVars, closeVars, state, runVars, readerVars, kaVars, cbVars>>
    /\ UNCHANGED otherVars

PushBackSend ==
    /\ ppc = "send"
    /\ ~inputClosed
    /\ Len(input) < InputCap
    /\ input' = Append(input, pr)
    /\ ppc' = "idle"
    /\ pr' = 0
    /\ UNCHANGED <<reqVars, inputClosed, closeVars, state, runVars, readerVars,
                   kaVars, cbVars>>
    /\ UNCHANGED otherVars

\* PushBack by a router that submits a burst of MaxBurst requests.
PushBackAddBurst ==
    /\ ppc = "idle"
    /\ nreq < MaxBurst
    /\ \E shape \in ReqShapes :
         reqs' = BatchAdd([reqs EXCEPT ![nreq + 1] =
                              NewReq("cmd", shape[1], shape[2])], nreq + 1)
    /\ nreq' = nreq + 1
    /\ pr' = nreq + 1
    /\ ppc' = "send"
    /\ UNCHANGED <<chanVars, closeVars, state, runVars, readerVars, kaVars, cbVars>>
    /\ UNCHANGED otherVars

PushBackBurst == PushBackAddBurst \/ PushBackSend

\* PushBack by a router that submits MaxSubmit requests over the life of the
\* worker.
PushBackAddFew ==
    /\ ppc = "idle"
    /\ nreq < MaxSubmit
    /\ \E shape \in ReqShapes :
         reqs' = BatchAdd([reqs EXCEPT ![nreq + 1] =
                              NewReq("cmd", shape[1], shape[2])], nreq + 1)
    /\ nreq' = nreq + 1
    /\ pr' = nreq + 1
    /\ ppc' = "send"
    /\ UNCHANGED <<chanVars, closeVars, state, runVars, readerVars, kaVars, cbVars>>
    /\ UNCHANGED otherVars

PushBackFew == PushBackAddFew \/ PushBackSend

\* PushBack with the two statements swapped: the request is sent first and
\* Batch.Add(1) follows.
PushBack_sendThenAdd ==
    \/ /\ ppc = "idle"
       /\ nreq < MaxReq
       /\ ~inputClosed
       /\ Len(input) < InputCap
       /\ \E shape \in ReqShapes :
            reqs' = [reqs EXCEPT ![nreq + 1] = NewReq("cmd", shape[1], shape[2])]
       /\ nreq' = nreq + 1
       /\ input' = Append(input, nreq + 1)
       /\ pr' = nreq + 1
       /\ ppc' = "add"
       /\ UNCHANGED <<inputClosed, closeVars, state, runVars, readerVars, kaVars,
                      cbVars, otherVars>>
    \/ /\ ppc = "add"
       /\ reqs' = BatchAdd(reqs, pr)
       /\ pr' = 0
       /\ ppc' = "idle"
       /\ UNCHANGED <<nreq, chanVars, closeVars, state, runVars, readerVars, kaVars,
                      cbVars, otherVars>>

PushBack == PushBackAdd \/ PushBackSend

\* --------------------------------------------------------------- Close
\* Close: stop.Do(close(bc.input)), then bc.closed.Set(true).
CloseInput ==
    /\ cpc = "idle"
    /\ inputClosed' = TRUE
    /\ cpc' = "closing"
    /\ UNCHANGED <<reqVars, input, closed, state, runVars, readerVars,
                   routerVars, kaVars, cbVars>>
    /\ UNCHANGED otherVars

CloseSetClosed ==
    /\ cpc = "closing"
    /\ closed' = TRUE
    /\ cpc' = "done"
    /\ UNCHANGED <<reqVars, chanVars, state, runVars, readerVars,
                   routerVars, kaVars, cbVars>>
    /\ UNCHANGED otherVars

Close == CloseInput \/ CloseSetClosed

\* ----------------------------------------------------------------- run
\* run: "for round := 0; bc.closed.IsFalse(); round++".
runCheck ==
    /\ pc = "check"
    /\ pc' = IF closed THEN "exit" ELSE "dial"
    /\ UNCHANGED <<reqVars, chanVars, closeVars, state, wr, werr, drainI, round,
                   fails, readerVars, routerVars, kaVars, cbVars>>
    /\ UNCHANGED otherVars

\* newBackendReader fails (dial, auth or select-db; the socket, if any, is
\* closed): loopWriter returns the error and its deferred drain starts,
\* reading len(bc.input).
\* A failed dial after which the deferred drain finds nothing to drain.
newBackendReaderFail_noDrain ==
    /\ pc = "dial"
    /\ werr' = TRUE
    /\ drainI' = 0
    /\ pc' = "drain"
    /\ \E step \in {"dial", "auth", "select"} :
         nopen' = IF step = "dial" THEN nopen
                  ELSE nopen + 1 - connClose(Dialled).closes
    /\ UNCHANGED <<reqVars, chanVars, closeVars, state, wr, round, fails,
                   readerVars, routerVars, kaVars, cbVars>>
    /\ UNCHANGED <<restVars, socks, probeRound>>

newBackendReaderFail ==
    /\ pc = "dial"
    /\ werr' = TRUE
    /\ drainI' = Len(input)
    /\ pc' = "drain"
    /\ \E step \in {"dial", "auth", "select"} :
         nopen' = IF step = "dial" THEN nopen
                  ELSE nopen + 1 - connClose(Dialled).closes
    /\ UNCHANGED <<reqVars, chanVars, closeVars, state, wr, round, fails,
                   readerVars, routerVars, kaVars, cbVars>>
    /\ UNCHANGED <<restVars, socks, probeRound>>

\* newBackendReader succeeds: a fresh tasks channel and a loopReader goroutine
\* for the round; then loopWriter sets bc.state.Set(stateConnected) and
\* bc.retry.fails = 0 (the new reader has nothing to read before that).
newBackendReaderOk ==
    /\ pc = "dial"
    /\ round < MaxRounds
    /\ round' = round + 1
    /\ rpc' = [rpc EXCEPT ![round + 1] = "recv"]
    /\ state' = stateConnected
    /\ fails' = 0
    /\ pc' = "loop"
    /\ nopen' = nopen + 1
    /\ UNCHANGED <<reqVars, chanVars, closeVars, wr, werr, drainI,
                   tasks, tasksClosed, wire, rr, routerVars, kaVars, cbVars>>
    /\ UNCHANGED <<restVars, socks, probeRound>>

newBackendReader == newBackendReaderFail \/ newBackendReaderOk

\* A writer that returns the error without completing the request.
writerFail_drop(rs, r) == rs

\* loopWriter: what the writer does with a request it failed to encode or
\* flush: "return bc.setResponse(r, nil, fmt.Errorf("backend conn failure, ..."))".
writerFail(rs, r) == setResponse(rs, r, Nil, "failure")

\* loopWriter: "if r.IsReadOnly() && r.IsBroken() { setResponse(...); continue }".
writerBroken(rs, r) == setResponse(rs, r, Nil, "broken")

\* loopWriter: "for r := range bc.input".  The request received is completed
\* at once when broken; otherwise EncodeMultiBulk and Flush either fail (the
\* request is failed and the round returns the error) or put it on the
\* socket.  When the channel is closed and empty the loop ends (return nil).
writerLoop ==
    /\ pc = "loop"
    /\ \/ /\ input # <<>>
          /\ reqs[Head(input)].broken
          /\ reqs' = writerBroken(reqs, Head(input))
          /\ input' = Tail(input)
          /\ UNCHANGED <<pc, wr, werr, wire>>
       \/ /\ input # <<>>
          /\ ~reqs[Head(input)].broken
          /\ reqs' = writerFail(reqs, Head(input))
          /\ input' = Tail(input)
          /\ werr' = TRUE
          /\ pc' = "defer_state"
          /\ UNCHANGED <<wr, wire>>
       \/ /\ input # <<>>
          /\ ~reqs[Head(input)].broken
          /\ wire' = [wire EXCEPT ![round] = Append(@, Head(input))]
          /\ wr' = Head(input)
          /\ input' = Tail(input)
          /\ pc' = "send"
          /\ UNCHANGED <<reqs, werr>>
       \/ /\ input = <<>>
          /\ inputClosed
          /\ werr' = FALSE
          /\ pc' = "defer_state"
          /\ UNCHANGED <<reqs, input, wr, wire>>
    /\ UNCHANGED <<nreq, inputClosed, closeVars, state, drainI, round, fails,
                   tasks, tasksClosed, rpc, rr, routerVars, kaVars, cbVars>>
    /\ UNCHANGED otherVars

\* A tasks queue that hands the newest request out first.
tasksSend_lifo(q, r) == <<r>> \o q

\* loopWriter: "tasks <- r".
tasksSend(q, r) == Append(q, r)

\* A send on tasks that never blocks.
writerSend_noCap ==
    /\ pc = "send"
    /\ tasks' = [tasks EXCEPT ![round] = tasksSend(@, wr)]
    /\ wr' = 0
    /\ pc' = "loop"
    /\ UNCHANGED <<reqVars, chanVars, closeVars, state, werr, drainI, round, fails,
                   tasksClosed, wire, rpc, rr, routerVars, kaVars, cbVars>>
    /\ UNCHANGED otherVars

writerSend ==
    /\ pc = "send"
    /\ Len(tasks[round]) < MaxPipeline
    /\ tasks' = [tasks EXCEPT ![round] = tasksSend(@, wr)]
    /\ wr' = 0
    /\ pc' = "loop"
    /\ UNCHANGED <<reqVars, chanVars, closeVars, state, werr, drainI, round, fails,
                   tasksClosed, wire, rpc, rr, routerVars, kaVars, cbVars>>
    /\ UNCHANGED otherVars

\* A writer whose deferred bc.state.Set(0) is missing.
writerDeferState_noSet ==
    /\ pc = "defer_state"
    /\ pc' = "defer_close"
    /\ UNCHANGED <<reqVars, chanVars, closeVars, state, wr, werr, drainI, round,
                   fails, readerVars, routerVars, kaVars, cbVars>>
    /\ UNCHANGED otherVars

\* loopWriter's defers, last registered first: bc.state.Set(0), close(tasks),
\* then the drain of the input queue, "for i := len(bc.input); i != 0; i--",
\* whose length is read once, on entry.
writerDeferState ==
    /\ pc = "defer_state"
    /\ state' = 0
    /\ pc' = "defer_close"
    /\ UNCHANGED <<reqVars, chanVars, closeVars, wr, werr, drainI, round, fails,
                   readerVars, routerVars, kaVars, cbVars>>
    /\ UNCHANGED otherVars

\* A deferred drain that finds nothing to drain.
writerDeferClose_noDrain ==
    /\ pc = "defer_close"
    /\ tasksClosed' = [tasksClosed EXCEPT ![round] = TRUE]
    /\ drainI' = 0
    /\ pc' = "drain"
    /\ UNCHANGED <<reqVars, chanVars, closeVars, state, wr, werr, round,
                   fails, tasks, wire, rpc, rr, routerVars, kaVars, cbVars>>
    /\ UNCHANGED otherVars

writerDeferClose ==
    /\ pc = "defer_close"
    /\ tasksClosed' = [tasksClosed EXCEPT ![round] = TRUE]
    /\ drainI' = Len(input)
    /\ pc' = "drain"
    /\ UNCHANGED <<reqVars, chanVars, closeVars, state, wr, werr, round,
                   fails, tasks, wire, rpc, rr, routerVars, kaVars, cbVars>>
    /\ UNCHANGED otherVars

\* A drain that completes the request without an error.
drainReset_noError(rs, r) == setResponse(rs, r, Nil, "nil")

\* The drain completes a request with ErrBackendConnReset.
drainReset(rs, r) == setResponse(rs, r, Nil, "reset")

writerDrain ==
    /\ pc = "drain"
    /\ drainI # 0
    /\ input # <<>>
    /\ reqs' = drainReset(reqs, Head(input))
    /\ input' = Tail(input)
    /\ drainI' = drainI - 1
    /\ UNCHANGED <<nreq, inputClosed, closeVars, state, pc, wr, werr, round, fails,
                   readerVars, routerVars, kaVars, cbVars>>
    /\ UNCHANGED otherVars

loopWriter ==
    \/ newBackendReader \/ writerLoop \/ writerSend
    \/ writerDeferState \/ writerDeferClose \/ writerDrain

\* A retry test that is off by one: "fails < 10".
runAfterRound_offByOne ==
    /\ pc = "drain"
    /\ drainI = 0
    /\ IF werr
       THEN /\ fails' = IF fails > RetryLimit THEN fails ELSE fails + 1
            /\ pc' = IF fails + 1 < RetryLimit THEN "check" ELSE "delay_check"
       ELSE /\ fails' = fails
            /\ pc' = "check"
    /\ UNCHANGED <<reqVars, chanVars, closeVars, state, wr, werr, drainI, round,
                   readerVars, routerVars, kaVars, cbVars>>
    /\ UNCHANGED otherVars

\* run: "if err := bc.loopWriter(round); err != nil { bc.delayBeforeRetry() }".
\* delayBeforeRetry: fails += 1; return at once while fails <= 10.  Every
\* value above RetryLimit behaves alike, so the counter saturates there.
\* The step is taken when loopWriter's deferred drain is over (i == 0).
runAfterRound ==
    /\ pc = "drain"
    /\ drainI = 0
    /\ IF werr
       THEN /\ fails' = IF fails > RetryLimit THEN fails ELSE fails + 1
            /\ pc' = IF fails + 1 <= RetryLimit THEN "check" ELSE "delay_check"
       ELSE /\ fails' = fails
            /\ pc' = "check"
    /\ UNCHANGED <<reqVars, chanVars, closeVars, state, wr, werr, drainI, round,
                   readerVars, routerVars, kaVars, cbVars>>
    /\ UNCHANGED otherVars

\* delayBeforeRetry: "for bc.closed.IsFalse() { select { ... } }".
delayCheck ==
    /\ pc = "delay_check"
    /\ pc' = IF closed THEN "check" ELSE "delay_select"
    /\ UNCHANGED <<reqVars, chanVars, closeVars, state, wr, werr, drainI, round,
                   fails, readerVars, routerVars, kaVars, cbVars>>
    /\ UNCHANGED otherVars

delaySelect ==
    /\ pc = "delay_select"
    /\ \/ /\ pc' = "check"                       \* case <-timeout
          /\ UNCHANGED <<reqs, input>>
       \/ /\ input # <<>>                         \* case r, ok := <-bc.input
          /\ reqs' = drainReset(reqs, Head(input))
          /\ input' = Tail(input)
          /\ pc' = "delay_check"
       \/ /\ input = <<>>                         \* !ok
          /\ inputClosed
          /\ pc' = "check"
          /\ UNCHANGED <<reqs, input>>
    /\ UNCHANGED <<nreq, inputClosed, closeVars, state, wr, werr, drainI, round,
                   fails, readerVars, routerVars, kaVars, cbVars>>
    /\ UNCHANGED otherVars

delayBeforeRetry == delayCheck \/ delaySelect

run == runCheck \/ loopWriter \/ runAfterRound \/ delayBeforeRetry


\* ---------------------------------------------------------- loopReader
\* atomic2.Int64.CompareAndSwap on bc.state.
CompareAndSwap(cur, old, new) == IF cur = old THEN new ELSE cur

\* A reader that stores DataStale instead of swapping from Connected.
readerState_set(cur, resp) ==
    IF resp # Nil /\ IsError(resp)
       /\ (HasPrefix(resp.value, errRespMasterDown) \/ HasPrefix(resp.value, errRespLoading))
    THEN stateDataStale
    ELSE cur

\* loopReader: the state after a reply has been decoded.
readerState(cur, resp) ==
    IF resp # Nil /\ IsError(resp)
    THEN IF HasPrefix(resp.value, errRespMasterDown)
         THEN CompareAndSwap(cur, stateConnected, stateDataStale)
         ELSE IF HasPrefix(resp.value, errRespLoading)
              THEN CompareAndSwap(cur, stateConnected, stateDataStale)
              ELSE cur
    ELSE cur

\* "for r := range tasks": the next task, or the end of the loop once the
\* channel is closed and empty (return nil, then the deferred drain).
readerRecv(k) ==
    /\ rpc[k] = "recv"
    /\ \/ /\ tasks[k] # <<>>
          /\ rr' = [rr EXCEPT ![k] = Head(tasks[k])]
          /\ tasks' = [tasks EXCEPT ![k] = Tail(@)]
          /\ rpc' = [rpc EXCEPT ![k] = "decode"]
          /\ UNCHANGED <<socks, nopen>>
       \/ /\ tasks[k] = <<>>
          /\ tasksClosed[k]
          /\ rpc' = [rpc EXCEPT ![k] = "drain"]
          /\ socks' = [socks EXCEPT ![k] = connClose(roundSocket(k)).closes]
          /\ nopen' = nopen - (socks'[k] - socks[k])
          /\ UNCHANGED <<rr, tasks>>
    /\ UNCHANGED <<reqVars, chanVars, closeVars, state, runVars, tasksClosed, wire,
                   routerVars, kaVars, cbVars>>
    /\ UNCHANGED <<restVars, probeRound>>

\* What loopReader does with the task in hand and a decoded reply:
\* "bc.setResponse(r, resp, nil)".
readerRespond(rs, r, resp) == setResponse(rs, r, resp, "nil")

\* "resp, err := c.Decode()": the backend answers the requests of the socket
\* in the order it received them (the reply records the request it answers).
\* The reply may swap the state, and completes the task in hand.  A decode
\* error fails the task in hand and ends the loop.
readerDecode(k) ==
    /\ rpc[k] = "decode"
    /\ \/ /\ wire[k] # <<>>
          /\ \E reply \in Replies(reqs[Head(wire[k])].kind, Head(wire[k])) :
               /\ state' = readerState(state, reply)
               /\ reqs' = readerRespond(reqs, rr[k], reply)
          /\ wire' = [wire EXCEPT ![k] = Tail(@)]
          /\ rpc' = [rpc EXCEPT ![k] = "recv"]
          /\ UNCHANGED <<socks, nopen>>
       \/ /\ reqs' = setResponse(reqs, rr[k], Nil, "failure")
          /\ rpc' = [rpc EXCEPT ![k] = "drain"]
          /\ socks' = [socks EXCEPT ![k] = connClose(roundSocket(k)).closes]
          /\ nopen' = nopen - (socks'[k] - socks[k])
          /\ UNCHANGED <<state, wire>>
    /\ rr' = [rr EXCEPT ![k] = 0]
    /\ UNCHANGED <<nreq, chanVars, closeVars, runVars, tasks, tasksClosed,
                   routerVars, kaVars, cbVars>>
    /\ UNCHANGED <<restVars, probeRound>>

\* The deferred function: c.Close() (taken with the step that leaves the
\* loop), then "for r := range tasks" failing every task left until the
\* writer closes the channel.
readerDrain(k) ==
    /\ rpc[k] = "drain"
    /\ \/ /\ tasks[k] # <<>>
          /\ reqs' = drainReset(reqs, Head(tasks[k]))
          /\ tasks' = [tasks EXCEPT ![k] = Tail(@)]
          /\ UNCHANGED <<rpc, wire>>
       \/ /\ tasks[k] = <<>>
          /\ tasksClosed[k]
          /\ rpc' = [rpc EXCEPT ![k] = "exit"]
          /\ wire' = [wire EXCEPT ![k] = <<>>]
          /\ UNCHANGED <<reqs, tasks>>
    /\ UNCHANGED <<nreq, chanVars, closeVars, state, runVars, tasksClosed, rr,
                   routerVars, kaVars, cbVars>>
    /\ UNCHANGED otherVars

loopReader(k) == readerRecv(k) \/ readerDecode(k) \/ readerDrain(k)

\* ----------------------------------------------------------- KeepAlive
\* strings.SplitN(line, ":", 2)
FirstColon(line) ==
    IF \E i \in 1 .. Len(line) : line[i] = ":"
    THEN CHOOSE i \in 1 .. Len(line) :
           line[i] = ":" /\ \A j \in 1 .. i - 1 : line[j] # ":"
    ELSE 0
SplitN2(line) ==
    IF FirstColon(line) = 0 THEN <<line>>
    ELSE <<SubSeq(line, 1, FirstColon(line) - 1),
           SubSeq(line, FirstColon(line) + 1, Len(line))>>

IsSpace(t) == t \in {" ", "\r", "\t"}
RECURSIVE TrimLeft(_)
TrimLeft(s) == IF s # <<>> /\ IsSpace(Head(s)) THEN TrimLeft(Tail(s)) ELSE s
RECURSIVE TrimRight(_)
TrimRight(s) ==
    IF s # <<>> /\ IsSpace(s[Len(s)]) THEN TrimRight(SubSeq(s, 1, Len(s) - 1))
    ELSE s
TrimSpace(s) == TrimRight(TrimLeft(s))

\* The info map built from the lines seen so far; a later line overrides.
RECURSIVE InfoGet(_, _)
InfoGet(lines, key) ==
    IF lines = <<>> THEN <<>>
    ELSE LET line == lines[Len(lines)]
             kv == SplitN2(line)
             rest == SubSeq(lines, 1, Len(lines) - 1)
         IN IF Len(kv) = 2 /\ TrimSpace(kv[1]) # <<>> /\ TrimSpace(kv[1]) = key
            THEN TrimSpace(kv[2])
            ELSE InfoGet(rest, key)

\* A verdict that forgets the "loading" check.
keepAliveVerdict_noLoading(m) ==
    IF m.Err # "nil" THEN "err"
    ELSE IF m.Resp = Nil THEN "err"
    ELSE IF IsError(m.Resp) THEN "err"
    ELSE IF IsBulkBytes(m.Resp)
         THEN IF InfoGet(m.Resp.value, <<"master_link_status">>) = <<"down">>
              THEN "stay"
              ELSE "swap"
    ELSE "err"

\* The closure KeepAlive hands to keepAliveCallback, after m.Batch.Wait():
\* "err" (logged), "stay" (return nil without a swap) or "swap".
keepAliveVerdict(m) ==
    IF m.Err # "nil" THEN "err"
    ELSE IF m.Resp = Nil THEN "err"
    ELSE IF IsError(m.Resp) THEN "err"
    ELSE IF IsBulkBytes(m.Resp)
         THEN IF InfoGet(m.Resp.value, <<"master_link_status">>) = <<"down">>
              THEN "stay"
              ELSE IF InfoGet(m.Resp.value, <<"loading">>) = <<"1">>
                   THEN "stay"
                   ELSE "swap"
    ELSE "err"

\* KeepAlive: nothing while requests are queued; otherwise a PING, or in
\* DataStale an INFO with a Batch (PushBack: Batch.Add(1) first).
KeepAliveBegin ==
    /\ kpc = "idle"
    /\ nreq < MaxReq
    /\ Len(input) = 0
    /\ reqs' = IF state = stateDataStale
               THEN BatchAdd([reqs EXCEPT ![nreq + 1] = NewReq("info", TRUE, FALSE)],
                             nreq + 1)
               ELSE BatchAdd([reqs EXCEPT ![nreq + 1] = NewReq("ping", FALSE, FALSE)],
                             nreq + 1)
    /\ nreq' = nreq + 1
    /\ km' = nreq + 1
    /\ kpc' = "send"
    /\ probeRound' = IF state = stateDataStale
                     THEN [probeRound EXCEPT ![nreq + 1] = round]
                     ELSE probeRound
    /\ UNCHANGED <<chanVars, closeVars, state, runVars, readerVars, routerVars, cbVars>>
    /\ UNCHANGED <<restVars, socks, nopen>>

KeepAliveSend ==
    /\ kpc = "send"
    /\ ~inputClosed
    /\ Len(input) < InputCap
    /\ input' = Append(input, km)
    /\ kpc' = IF reqs[km].kind = "info" THEN "callback" ELSE "idle"
    /\ km' = IF reqs[km].kind = "info" THEN km ELSE 0
    /\ UNCHANGED <<reqVars, inputClosed, closeVars, state, runVars, readerVars,
                   routerVars, cbVars>>
    /\ UNCHANGED otherVars

\* "keepAliveCallback <- func() { ... }": the send blocks while the channel
\* is full.
KeepAliveCallbackSend ==
    /\ kpc = "callback"
    /\ Len(cbq) < CallbackCap
    /\ cbq' = Append(cbq, km)
    /\ kpc' = "idle"
    /\ km' = 0
    /\ UNCHANGED <<reqVars, chanVars, closeVars, state, runVars, readerVars,
                   routerVars, cbpc, cbm>>
    /\ UNCHANGED otherVars

KeepAlive == KeepAliveBegin \/ KeepAliveSend \/ KeepAliveCallbackSend

\* KeepAlive called by a ticker that issues up to MaxBurst probes.
KeepAliveBeginBurst ==
    /\ kpc = "idle"
    /\ nreq < MaxBurst
    /\ Len(input) = 0
    /\ reqs' = IF state = stateDataStale
               THEN BatchAdd([reqs EXCEPT ![nreq + 1] = NewReq("info", TRUE, FALSE)],
                             nreq + 1)
               ELSE BatchAdd([reqs EXCEPT ![nreq + 1] = NewReq("ping", FALSE, FALSE)],
                             nreq + 1)
    /\ nreq' = nreq + 1
    /\ km' = nreq + 1
    /\ kpc' = "send"
    /\ probeRound' = IF state = stateDataStale
                     THEN [probeRound EXCEPT ![nreq + 1] = round]
                     ELSE probeRound
    /\ UNCHANGED <<chanVars, closeVars, state, runVars, readerVars, routerVars, cbVars>>
    /\ UNCHANGED <<restVars, socks, nopen>>

KeepAliveBurst == KeepAliveBeginBurst \/ KeepAliveSend \/ KeepAliveCallbackSend

\* init's goroutine: "for fn := range keepAliveCallback { fn() }".
callbackRecv ==
    /\ cbpc = "idle"
    /\ cbq # <<>>
    /\ cbm' = Head(cbq)
    /\ cbq' = Tail(cbq)
    /\ cbpc' = "wait"
    /\ UNCHANGED <<reqVars, chanVars, closeVars, state, runVars, readerVars,
                   routerVars, kaVars>>
    /\ UNCHANGED otherVars

\* fn(): m.Batch.Wait() returns once the counter is zero; then the verdict.
callbackRun ==
    /\ cbpc = "wait"
    /\ reqs[cbm].wg = 0
    /\ state' = IF keepAliveVerdict(reqs[cbm]) = "swap"
                THEN CompareAndSwap(state, stateDataStale, stateConnected)
                ELSE state
    /\ cbpc' = "idle"
    /\ cbm' = 0
    /\ UNCHANGED <<reqVars, chanVars, closeVars, runVars, readerVars, routerVars,
                   kaVars, cbq>>
    /\ UNCHANGED otherVars

keepAliveCallback == callbackRecv \/ callbackRun

\* ---------------------------------------------------------------- Spec
\* ------------------------------------------- sharedBackendConn and its pool
\* Shared connections the pool creates, addresses, and the cap on a refcount.
MaxShared == 2
MaxAddrs == 1
MaxRefs == 2

\* pool.parallel and config.BackendNumberDatabases of the pool under study.
parallel == 2
BackendNumberDatabases == 1

Addrs == 1 .. MaxAddrs
Shared == 1 .. MaxShared
WorkersPerShared == BackendNumberDatabases * parallel
Workers == 1 .. (MaxShared * WorkersPerShared)
\* s.conns, database by database.
WorkersOf(h) == ((h - 1) * WorkersPerShared + 1) .. (h * WorkersPerShared)

NoWorker == [pc |-> "none", inputClosed |-> FALSE, closed |-> FALSE]
\* NewBackendConn: an open input channel, closed = false, and "go bc.run()".
NewBackendConn == [pc |-> "check", inputClosed |-> FALSE, closed |-> FALSE]
NoShared == [addr |-> 0, refcnt |-> 0]
NoRelease == [h |-> 0, i |-> 0, step |-> "idle"]

\* log.Panicf in a call on handle h: the call does not return, nothing after
\* it is executed.
Panicf(h) ==
    /\ panicked' = h
    /\ UNCHANGED <<pool, shared, nshared, workers, rel>>

\* newSharedBackendConn: one BackendConn per database and parallel slot,
\* refcnt = 1.
newSharedBackendConn(addr) ==
    /\ nshared < MaxShared
    /\ nshared' = nshared + 1
    /\ shared' = [shared EXCEPT ![nshared + 1] = [addr |-> addr, refcnt |-> 1]]
    /\ workers' = [w \in Workers |->
                     IF w \in WorkersOf(nshared + 1) THEN NewBackendConn
                     ELSE workers[w]]

\* sharedBackendConn.Retain on handle h.
Retain(h) ==
    IF shared[h].refcnt <= 0
    THEN Panicf(h)
    ELSE /\ shared[h].refcnt < MaxRefs
         /\ shared' = [shared EXCEPT ![h].refcnt = @ + 1]
         /\ UNCHANGED <<pool, nshared, workers, rel, panicked>>

\* A client calls Retain on a handle it got earlier.
sharedRetain ==
    /\ rel.step = "idle"
    /\ \E h \in 1 .. nshared : Retain(h)
    /\ UNCHANGED <<connVars, selVars, libVars>>

\* sharedBackendConnPool.Retain(addr).
poolRetain ==
    /\ rel.step = "idle"
    /\ \E addr \in Addrs :
         IF pool[addr] # 0
         THEN Retain(pool[addr])
         ELSE /\ newSharedBackendConn(addr)
              /\ pool' = [pool EXCEPT ![addr] = nshared + 1]
              /\ UNCHANGED <<rel, panicked>>
    /\ UNCHANGED <<connVars, selVars, libVars>>

\* A Release guard that lets a refcount of zero through.
releaseClosed_negative(s) == s.refcnt < 0

\* Release: "if s.refcnt <= 0".
releaseClosed(s) == s.refcnt <= 0

\* Release up to "if s.refcnt != 0 { return }".
Release ==
    /\ rel.step = "idle"
    /\ \E h \in 1 .. nshared :
         IF releaseClosed(shared[h])
         THEN Panicf(h)
         ELSE /\ shared' = [shared EXCEPT ![h].refcnt = @ - 1]
              /\ rel' = IF shared[h].refcnt - 1 # 0
                        THEN NoRelease
                        ELSE [h |-> h, i |-> (h - 1) * WorkersPerShared + 1,
                              step |-> "close_input"]
              /\ UNCHANGED <<pool, nshared, workers, panicked>>
    /\ UNCHANGED <<connVars, selVars, libVars>>

\* bc.Close() of Release's loop: bc.stop.Do(close(bc.input)).
releaseCloseInput ==
    /\ rel.step = "close_input"
    /\ workers' = [workers EXCEPT ![rel.i].inputClosed = TRUE]
    /\ rel' = [rel EXCEPT !.step = "set_closed"]
    /\ UNCHANGED <<pool, shared, nshared, panicked, connVars, selVars, libVars>>

\* bc.Close() of Release's loop: bc.closed.Set(true); then the next worker.
releaseSetClosed ==
    /\ rel.step = "set_closed"
    /\ workers' = [workers EXCEPT ![rel.i].closed = TRUE]
    /\ rel' = IF rel.i + 1 \in WorkersOf(rel.h)
              THEN [rel EXCEPT !.i = @ + 1, !.step = "close_input"]
              ELSE [rel EXCEPT !.step = "delete"]
    /\ UNCHANGED <<pool, shared, nshared, panicked, connVars, selVars, libVars>>

\* A Release that leaves the map entry in place.
releaseRemove_keep(p, addr) == p

\* delete(s.owner.pool, s.addr)
releaseRemove(p, addr) == [p EXCEPT ![addr] = 0]

releaseDelete ==
    /\ rel.step = "delete"
    /\ pool' = releaseRemove(pool, shared[rel.h].addr)
    /\ rel' = NoRelease
    /\ UNCHANGED <<shared, nshared, workers, panicked, connVars, selVars, libVars>>

\* The run goroutine of worker w, as the pool sees it.  run: the loop
\* condition bc.closed.IsFalse().
workerCheck(w) ==
    /\ workers[w].pc = "check"
    /\ workers' = [workers EXCEPT
                     ![w].pc = IF workers[w].closed THEN "exit" ELSE "round"]
    /\ UNCHANGED <<pool, shared, nshared, rel, panicked, connVars, selVars, libVars>>

\* A round that fails (dial or I/O error) and its backoff, input still open.
workerRoundFail(w) ==
    /\ workers[w].pc = "round"
    /\ ~workers[w].inputClosed
    /\ workers' = [workers EXCEPT ![w].pc = "check"]
    /\ UNCHANGED <<pool, shared, nshared, rel, panicked, connVars, selVars, libVars>>

\* A round once input is closed: the dial fails, or "for r := range bc.input"
\* ends; delayBeforeRetry returns.
workerRoundEnd(w) ==
    /\ workers[w].pc = "round"
    /\ workers[w].inputClosed
    /\ workers' = [workers EXCEPT ![w].pc = "check"]
    /\ UNCHANGED <<pool, shared, nshared, rel, panicked, connVars, selVars, libVars>>

workerRun(w) == workerCheck(w) \/ workerRoundFail(w) \/ workerRoundEnd(w)

InitPool ==
    /\ pool = [a \in Addrs |-> 0]
    /\ shared = [h \in Shared |-> NoShared]
    /\ nshared = 0
    /\ workers = [w \in Workers |-> NoWorker]
    /\ rel = NoRelease
    /\ panicked = 0

\* ------------------------------------------- sharedBackendConn.BackendConn
\* The width of Go's uint in the model, and the largest parallel.
UintWidth == 4
MaxParallel == 3

UintMod == 2 ^ UintWidth
WorkerStates == {0, stateConnected, stateDataStale}

NoConn == [called |-> TRUE, isnil |-> TRUE, i |-> 0]
Conn(i) == [called |-> TRUE, isnil |-> FALSE, i |-> i]
NotCalled == [called |-> FALSE, isnil |-> TRUE, i |-> 0]

\* A loop step that keeps the index where it is.
scanNext_noStep(i, n) == i % n

\* "i = (i + 1) % uint(len(parallel))" on a uint of UintWidth bits.
scanNext(i, n) == ((i + 1) % UintMod) % n

\* "for range parallel": n iterations left, i the index variable.
RECURSIVE scan(_, _, _)
scan(conns, i, n) ==
    IF n = 0 THEN NoConn
    ELSE IF conns[scanNext(i, Len(conns)) + 1] = stateConnected
         THEN Conn(scanNext(i, Len(conns)))
         ELSE scan(conns, scanNext(i, Len(conns)), n - 1)

\* BackendConn(database, seed, must) on conns[database]; s.single is set
\* exactly when parallel is 1.
BackendConn(conns, seed, must) ==
    IF Len(conns) = 1
    THEN IF must \/ conns[1] = stateConnected THEN Conn(0) ELSE NoConn
    ELSE IF ~scan(conns, seed, Len(conns)).isnil
         THEN scan(conns, seed, Len(conns))
         ELSE IF ~must THEN NoConn ELSE Conn(0)

selectBackendConn ==
    /\ ~sres.called
    /\ sres' = BackendConn(sconns, sseed, smust)
    /\ UNCHANGED <<sconns, sseed, smust, connVars, poolVars, libVars>>

InitNoCall ==
    /\ sconns = <<0>>
    /\ sseed = 0
    /\ smust = FALSE
    /\ sres = NotCalled

InitSelect ==
    /\ \E n \in 1 .. MaxParallel : sconns \in [1 .. n -> WorkerStates]
    /\ sseed \in 0 .. (UintMod - 1)
    /\ smust \in BOOLEAN
    /\ sres = NotCalled

\* ================================================= bufio2.Reader
\* Largest buffer a Reader is built with.
MaxBufSize == 2
\* Longest byte stream behind a Reader.
MaxStream == 2
\* Largest argument of Read (len(p)) and ReadFull (n).
MaxRead == 2
\* Calls after which the underlying io.Reader no longer returns (0, nil).
MaxCalls == 1

\* The bytes of a stream; NUL is the zero byte of a fresh make([]byte, size).
Newline == "\n"
NUL == "0"
Bytes == {"a", "b", Newline}
Streams == UNION { [1 .. n -> Bytes] : n \in 0 .. MaxStream }

Min(a, b) == IF a < b THEN a ELSE b

\* Go's s[lo:hi] and copy(buf[at:], src) on byte slices.
Slice(s, lo, hi) == SubSeq(s, lo + 1, hi)
copy(buf, at, src) ==
    [i \in 1 .. Len(buf) |->
        IF i > at /\ i <= at + Len(src) THEN src[i - at] ELSE buf[i]]

\* bytes.IndexByte: the first index of c in s, or -1.
IndexByte_last(s, c) ==
    IF \E i \in 1 .. Len(s) : s[i] = c
    THEN (CHOOSE i \in 1 .. Len(s) :
              s[i] = c /\ \A j \in (i + 1) .. Len(s) : s[j] # c) - 1
    ELSE -1

IndexByte(s, c) ==
    IF \E i \in 1 .. Len(s) : s[i] = c
    THEN (CHOOSE i \in 1 .. Len(s) :
              s[i] = c /\ \A j \in 1 .. (i - 1) : s[j] # c) - 1
    ELSE -1

\* The underlying io.Reader holding the bytes s: a Read into m bytes of space
\* returns some of the next bytes, the last bytes of the stream with or
\* without io.EOF, (0, io.EOF) at the end, or (0, nil).
rdRead(rd, m) ==
    LET k == Min(m, Len(rd.s))
        after(n) == [s |-> SubSeq(rd.s, n + 1, Len(rd.s)), calls |-> rd.calls + 1]
        some == { [data |-> SubSeq(rd.s, 1, n), err |-> "nil", rd |-> after(n)] :
                    n \in 1 .. k }
        none == IF rd.calls < MaxCalls
                THEN { [data |-> <<>>, err |-> "nil", rd |-> after(0)] }
                ELSE {}
        last == IF Len(rd.s) <= m
                THEN { [data |-> rd.s, err |-> "EOF", rd |-> after(Len(rd.s))] }
                ELSE {}
    IN  some \cup none \cup last

NewReaderSize(stream, size) ==
    [err |-> "nil", buf |-> [i \in 1 .. size |-> NUL], rpos |-> 0, wpos |-> 0,
     rd |-> [s |-> stream, calls |-> 0]]

buffered(b) == b.wpos - b.rpos

\* fill: the states the Reader can be in after one fill.
fill(b) ==
    IF b.err # "nil" THEN {b}
    ELSE LET c == IF b.rpos > 0
                  THEN [b EXCEPT !.buf = copy(b.buf, 0, Slice(b.buf, b.rpos, b.wpos)),
                                 !.rpos = 0,
                                 !.wpos = b.wpos - b.rpos]
                  ELSE b
         IN  { [c EXCEPT !.buf = copy(c.buf, c.wpos, o.data),
                         !.rd = o.rd,
                         !.err = IF o.err # "nil" THEN o.err
                                 ELSE IF Len(o.data) = 0 THEN "ErrNoProgress"
                                 ELSE "nil",
                         !.wpos = IF o.err = "nil" /\ Len(o.data) > 0
                                  THEN c.wpos + Len(o.data) ELSE c.wpos] :
               o \in rdRead(c.rd, Len(c.buf) - c.wpos) }

Ret(b, val, err) == [b |-> b, val |-> val, err |-> err]

\* The tail of Read: n := copy(p, b.buf[b.rpos:b.wpos]); b.rpos += n.
readCopy(b, m) ==
    LET n == Min(m, buffered(b))
    IN  Ret([b EXCEPT !.rpos = b.rpos + n], Slice(b.buf, b.rpos, b.rpos + n), "nil")

\* Read without the test of the sticky error.
Read_noErrCheck(b, m) ==
    IF m = 0 THEN {Ret(b, <<>>, b.err)}
    ELSE IF buffered(b) = 0
    THEN IF m >= Len(b.buf)
         THEN { LET e == IF o.err # "nil" THEN o.err ELSE b.err
                IN  Ret([b EXCEPT !.rd = o.rd, !.err = e], o.data, e) :
                o \in rdRead(b.rd, m) }
         ELSE { IF f.err # "nil" THEN Ret(f, <<>>, f.err) ELSE readCopy(f, m) :
                f \in fill(b) }
    ELSE {readCopy(b, m)}

\* Read(p) with len(p) = m: the returns (n bytes copied to p, error).
Read(b, m) ==
    IF b.err # "nil" \/ m = 0 THEN {Ret(b, <<>>, b.err)}
    ELSE IF buffered(b) = 0
    THEN IF m >= Len(b.buf)
         THEN { LET e == IF o.err # "nil" THEN o.err ELSE b.err
                IN  Ret([b EXCEPT !.rd = o.rd, !.err = e], o.data, e) :
                o \in rdRead(b.rd, m) }
         ELSE { IF f.err # "nil" THEN Ret(f, <<>>, f.err) ELSE readCopy(f, m) :
                f \in fill(b) }
    ELSE {readCopy(b, m)}

ReadByte(b) ==
    IF b.err # "nil" THEN {Ret(b, <<>>, b.err)}
    ELSE { IF f.err # "nil" THEN Ret(f, <<>>, f.err)
           ELSE Ret([f EXCEPT !.rpos = f.rpos + 1], <<f.buf[f.rpos + 1]>>, "nil") :
           f \in IF buffered(b) = 0 THEN fill(b) ELSE {b} }

PeekByte(b) ==
    IF b.err # "nil" THEN {Ret(b, <<>>, b.err)}
    ELSE { IF f.err # "nil" THEN Ret(f, <<>>, f.err)
           ELSE Ret(f, <<f.buf[f.rpos + 1]>>, "nil") :
           f \in IF buffered(b) = 0 THEN fill(b) ELSE {b} }

\* ReadSlice(delim): the returns (slice, error); loop(c) is its for loop.
ReadSlice(b, delim) ==
    LET RECURSIVE loop(_)
        loop(c) ==
            LET index == IndexByte(Slice(c.buf, c.rpos, c.wpos), delim)
                limit == c.rpos + index + 1
            IN  IF index >= 0
                THEN {Ret([c EXCEPT !.rpos = limit], Slice(c.buf, c.rpos, limit), "nil")}
                ELSE IF buffered(c) = Len(c.buf)
                THEN {Ret([c EXCEPT !.rpos = c.wpos], c.buf, "ErrBufferFull")}
                ELSE UNION { IF f.err # "nil" THEN {Ret(f, <<>>, f.err)}
                             ELSE loop(f) : f \in fill(c) }
    IN  IF b.err # "nil" THEN {Ret(b, <<>>, b.err)}
        ELSE loop(b)

\* ReadBytes(delim); loop(c, full) is its for loop, full the concatenation
\* of the fragments kept so far.
ReadBytes(b, delim) ==
    LET RECURSIVE loop(_, _)
        loop(c, full) ==
            UNION { IF r.err # "nil"
                    THEN IF r.err # "ErrBufferFull"
                         THEN {Ret(r.b, <<>>, r.b.err)}
                         ELSE loop(r.b, full \o r.val)
                    ELSE {Ret(r.b, full \o r.val, "nil")} :
                    r \in ReadSlice(c, delim) }
    IN  loop(b, <<>>)

\* ReadFull(n); ioReadFull(c, got) is io.ReadFull(b, buf) with len(buf) = n,
\* got being the bytes read so far.
ReadFull(b, n) ==
    LET RECURSIVE ioReadFull(_, _)
        ioReadFull(c, got) ==
            UNION { LET now == got \o r.val
                    IN  IF Len(now) >= n THEN {Ret(r.b, now, "nil")}
                        ELSE IF r.err # "nil"
                        THEN {Ret(r.b, <<>>,
                                  IF Len(now) > 0 /\ r.err = "EOF"
                                  THEN "ErrUnexpectedEOF" ELSE r.err)}
                        ELSE ioReadFull(r.b, now) :
                    r \in Read(c, n - Len(got)) }
    IN  IF b.err # "nil" \/ n = 0 THEN {Ret(b, <<>>, b.err)}
        ELSE ioReadFull(b, <<>>)

\* The return of the last call: its name, its arguments, its value, its error.
Called(op, n, delim, r) ==
    [op |-> op, n |-> n, delim |-> delim, val |-> r.val, err |-> r.err]
NoCall == [op |-> "none", n |-> 0, delim |-> NUL, val |-> <<>>, err |-> "nil"]

\* A caller of the Reader: one action per exported method.  rgot collects the
\* bytes handed to the caller (PeekByte hands none).
ReaderReturn(called, r, taken) ==
    /\ reader' = r.b
    /\ rret' = called
    /\ rgot' = IF taken THEN rgot \o r.val ELSE rgot
    /\ UNCHANGED <<rsrc, wrVars, decVars, cgoVars, coreVars>>

ReaderRead ==
    \E m \in 0 .. MaxRead : \E r \in Read(reader, m) :
        ReaderReturn(Called("Read", m, NUL, r), r, TRUE)

ReaderReadByte ==
    \E r \in ReadByte(reader) :
        ReaderReturn(Called("ReadByte", 0, NUL, r), r, TRUE)

ReaderPeekByte ==
    \E r \in PeekByte(reader) :
        ReaderReturn(Called("PeekByte", 0, NUL, r), r, FALSE)

ReaderReadSlice ==
    \E delim \in Bytes : \E r \in ReadSlice(reader, delim) :
        ReaderReturn(Called("ReadSlice", 0, delim, r), r, TRUE)

ReaderReadBytes(delim) ==
    \E r \in ReadBytes(reader, delim) :
        ReaderReturn(Called("ReadBytes", 0, delim, r), r, TRUE)

ReaderReadFull ==
    \E n \in 0 .. MaxRead : \E r \in ReadFull(reader, n) :
        ReaderReturn(Called("ReadFull", n, NUL, r), r, TRUE)

InitNoReader ==
    /\ reader = NewReaderSize(<<>>, 1)
    /\ rret = NoCall
    /\ rsrc = <<>>
    /\ rgot = <<>>

InitReader ==
    /\ rsrc \in Streams
    /\ \E size \in 1 .. MaxBufSize : reader = NewReaderSize(rsrc, size)
    /\ rret = NoCall
    /\ rgot = <<>>

\* ================================================= bufio2.Writer
\* Largest buffer a Writer is built with.
MaxWBufSize == 2
\* Longest argument of Write and WriteString.
MaxWrite == 3
\* Bytes the callers of a Writer write in all.
MaxWritten == 4

WBytes == {"a", "b"}
Payloads == UNION { [1 .. n -> WBytes] : n \in 0 .. MaxWrite }

RECURSIVE Flat(_)
Flat(chunks) ==
    IF chunks = <<>> THEN <<>> ELSE Head(chunks) \o Flat(Tail(chunks))

\* The underlying io.Writer, taken being the arguments it has taken so far:
\* Write(p) takes p in full, or takes a part of it and returns an error.
wrWrite(taken, p) ==
    { [wr |-> Append(taken, p), n |-> Len(p), err |-> "nil"] }
    \cup { [wr |-> Append(taken, SubSeq(p, 1, n)), n |-> n, err |-> "EIO"] :
           n \in 0 .. (Len(p) - 1) }

NewWriterSize(size) ==
    [err |-> "nil", buf |-> [i \in 1 .. size |-> NUL], wpos |-> 0, wr |-> <<>>]

available(b) == Len(b.buf) - b.wpos

\* flush: the states the Writer can be in after one flush.
flush(b) ==
    IF b.err # "nil" \/ b.wpos = 0 THEN {b}
    ELSE { [b EXCEPT !.wr = o.wr,
                     !.err = IF o.err # "nil" THEN o.err
                             ELSE IF o.n < b.wpos THEN "ErrShortWrite"
                             ELSE "nil",
                     !.wpos = IF o.err = "nil" /\ o.n >= b.wpos THEN 0 ELSE b.wpos] :
           o \in wrWrite(b.wr, Slice(b.buf, 0, b.wpos)) }

WRet(b, n, err, direct) == [b |-> b, n |-> n, err |-> err, direct |-> direct]

\* n := copy(b.buf[b.wpos:], p); b.wpos += n
put(b, p) ==
    LET n == Min(Len(p), available(b))
    IN  [b EXCEPT !.buf = copy(b.buf, b.wpos, SubSeq(p, 1, n)), !.wpos = b.wpos + n]

\* Write's test for handing p to the underlying writer without buffering it.
bypass_always(b) == TRUE

bypass(b) == b.wpos = 0

\* Write(p): the returns (nn, err); loop(c, q, nn, direct) is its for loop
\* with q the rest of p, and direct records each bypass.
Write(b, p) ==
    LET RECURSIVE loop(_, _, _, _)
        loop(c, q, nn, direct) ==
            IF c.err = "nil" /\ Len(q) > available(c)
            THEN IF bypass(c)
                 THEN UNION { loop([c EXCEPT !.wr = o.wr, !.err = o.err],
                                   SubSeq(q, o.n + 1, Len(q)), nn + o.n,
                                   direct \cup {[wpos |-> c.wpos,
                                                 free |-> available(c),
                                                 len |-> Len(q)]}) :
                              o \in wrWrite(c.wr, q) }
                 ELSE LET n == Min(Len(q), available(c))
                      IN  UNION { loop(f, SubSeq(q, n + 1, Len(q)), nn + n, direct) :
                                  f \in flush(put(c, q)) }
            ELSE IF c.err # "nil" \/ Len(q) = 0
            THEN {WRet(c, nn, c.err, direct)}
            ELSE {WRet(put(c, q), nn + Len(q), "nil", direct)}
    IN  loop(b, p, 0, {})

WriteByte(b, c) ==
    IF b.err # "nil" THEN {WRet(b, 0, b.err, {})}
    ELSE { IF f.err # "nil" THEN WRet(f, 0, f.err, {})
           ELSE WRet(put(f, <<c>>), 1, "nil", {}) :
           f \in IF available(b) = 0 THEN flush(b) ELSE {b} }

WriteString(b, s) ==
    LET RECURSIVE loop(_, _, _)
        loop(c, q, nn) ==
            IF c.err = "nil" /\ Len(q) > available(c)
            THEN LET n == Min(Len(q), available(c))
                 IN  UNION { loop(f, SubSeq(q, n + 1, Len(q)), nn + n) :
                             f \in flush(put(c, q)) }
            ELSE IF c.err # "nil" \/ Len(q) = 0
            THEN {WRet(c, nn, c.err, {})}
            ELSE {WRet(put(c, q), nn + Len(q), "nil", {})}
    IN  loop(b, s, 0)

Flush(b) == { WRet(f, 0, f.err, {}) : f \in flush(b) }

\* A caller of the Writer: one action per exported method.
WriterReturn(op, p, r) ==
    /\ writer' = r.b
    /\ wall' = wall \o p
    /\ wret' = [op |-> op, n |-> r.n, err |-> r.err, direct |-> r.direct]
    /\ UNCHANGED <<rdVars, decVars, cgoVars, coreVars>>

WriterWrite ==
    \E p \in Payloads :
        /\ Len(wall) + Len(p) <= MaxWritten
        /\ \E r \in Write(writer, p) : WriterReturn("Write", p, r)

WriterWriteByte ==
    \E c \in WBytes :
        /\ Len(wall) + 1 <= MaxWritten
        /\ \E r \in WriteByte(writer, c) : WriterReturn("WriteByte", <<c>>, r)

WriterWriteString ==
    \E s \in Payloads :
        /\ Len(wall) + Len(s) <= MaxWritten
        /\ \E r \in WriteString(writer, s) : WriterReturn("WriteString", s, r)

WriterFlush ==
    \E r \in Flush(writer) : WriterReturn("Flush", <<>>, r)

NoWrite == [op |-> "none", n |-> 0, err |-> "nil", direct |-> {}]

InitNoWriter ==
    /\ writer = NewWriterSize(1)
    /\ wall = <<>>
    /\ wret = NoWrite

InitWriter ==
    /\ \E size \in 1 .. MaxWBufSize : writer = NewWriterSize(size)
    /\ wall = <<>>
    /\ wret = NoWrite

\* ================================================= redis.Decoder
\* Size of the bufio2.Reader under a Decoder.
DecBufSize == 4
MaxBulkBytesLen == 536870912
MaxArrayLen == 1048576

CR == "\r"
TypeString == "+"
TypeError == "-"
TypeInt == ":"
TypeBulkBytes == "$"
TypeArray == "*"

\* Frames a peer sends, well-formed and not.
Frames ==
    { <<"+", CR, Newline>>,
      <<":", "1", CR, Newline>>,
      <<"$", "1", CR, Newline, "a", CR, Newline>>,
      <<"$", "-", "1", CR, Newline>>,
      <<"*", "1", CR, Newline, "$", "0", CR, Newline, CR, Newline>>,
      <<"a", " ", "a", CR, Newline>>,
      <<"+", Newline>>,
      <<"*", "0", CR, Newline>> }
DecStreams == {<<>>} \cup Frames \cup { f \o g : f \in Frames, g \in Frames }

\* A []byte or []*Resp that may be nil, and a *Resp that may be nil.
NilValue == [nil |-> TRUE, v |-> <<>>]
Value(v) == [nil |-> FALSE, v |-> v]
NilResp == [nil |-> TRUE, type |-> NUL, value |-> NilValue, array |-> NilValue]
Resp(type, value, array) ==
    [nil |-> FALSE, type |-> type, value |-> value, array |-> array]
NewBulkBytes(v) == Resp(TypeBulkBytes, Value(v), NilValue)

DRet(b, val, err) == [b |-> b, val |-> val, err |-> err]

\* Btoi64: an optional sign and decimal digits.
Btoi64(b) ==
    LET DigitChars == <<"0", "1", "2", "3", "4", "5", "6", "7", "8", "9">>
        IsDigit(c) == \E i \in 1 .. Len(DigitChars) : DigitChars[i] = c
        DigitVal(c) == (CHOOSE i \in 1 .. Len(DigitChars) : DigitChars[i] = c) - 1
        RECURSIVE Atoi(_, _)
        Atoi(d, n) == IF d = <<>> THEN n ELSE Atoi(Tail(d), DigitVal(Head(d)) + n * 10)
        signed == b # <<>> /\ Head(b) \in {"-", "+"}
        digits == IF signed THEN Tail(b) ELSE b
    IN  IF digits # <<>> /\ \A i \in 1 .. Len(digits) : IsDigit(digits[i])
        THEN [n |-> IF signed /\ Head(b) = "-" THEN 0 - Atoi(digits, 0)
                    ELSE Atoi(digits, 0),
              err |-> "nil"]
        ELSE [n |-> 0, err |-> "ErrSyntax"]

\* The line without its CRLF, or ErrBadCRLFEnd.
BadCRLFEnd(b) == Len(b) - 2 < 0 \/ b[Len(b) - 1] # CR

decodeTextBytes(br) ==
    { IF r.err # "nil" THEN DRet(r.b, NilValue, r.err)
      ELSE IF BadCRLFEnd(r.val) THEN DRet(r.b, NilValue, "ErrBadCRLFEnd")
      ELSE DRet(r.b, Value(SubSeq(r.val, 1, Len(r.val) - 2)), "nil") :
      r \in ReadBytes(br, Newline) }

decodeInt(br) ==
    { IF r.err # "nil" THEN DRet(r.b, 0, r.err)
      ELSE IF BadCRLFEnd(r.val) THEN DRet(r.b, 0, "ErrBadCRLFEnd")
      ELSE LET i == Btoi64(SubSeq(r.val, 1, Len(r.val) - 2))
           IN  DRet(r.b, i.n, i.err) :
      r \in ReadSlice(br, Newline) }

decodeBulkBytes(br) ==
    UNION { IF i.err # "nil" THEN {DRet(i.b, NilValue, i.err)}
            ELSE IF i.val < -1 THEN {DRet(i.b, NilValue, "ErrBadBulkBytesLen")}
            ELSE IF i.val > MaxBulkBytesLen
            THEN {DRet(i.b, NilValue, "ErrBadBulkBytesLenTooLong")}
            ELSE IF i.val = -1 THEN {DRet(i.b, NilValue, "nil")}
            ELSE { IF r.err # "nil" THEN DRet(r.b, NilValue, r.err)
                   ELSE IF r.val[i.val + 1] # CR \/ r.val[i.val + 2] # Newline
                   THEN DRet(r.b, NilValue, "ErrBadCRLFEnd")
                   ELSE DRet(r.b, Value(SubSeq(r.val, 1, i.val)), "nil") :
                   r \in ReadFull(i.b, i.val + 2) } :
            i \in decodeInt(br) }

RECURSIVE decodeResp(_)

\* decodeArray; elems(c, n, array) is its loop with n elements to go.
decodeArray(br) ==
    LET RECURSIVE elems(_, _, _)
        elems(c, n, array) ==
            IF n = 0 THEN {DRet(c, Value(array), "nil")}
            ELSE UNION { IF r.err # "nil" THEN {DRet(r.b, NilValue, r.err)}
                         ELSE elems(r.b, n - 1, Append(array, r.val)) :
                         r \in decodeResp(c) }
    IN  UNION { IF i.err # "nil" THEN {DRet(i.b, NilValue, i.err)}
                ELSE IF i.val < -1 THEN {DRet(i.b, NilValue, "ErrBadArrayLen")}
                ELSE IF i.val > MaxArrayLen
                THEN {DRet(i.b, NilValue, "ErrBadArrayLenTooLong")}
                ELSE IF i.val = -1 THEN {DRet(i.b, NilValue, "nil")}
                ELSE elems(i.b, i.val, <<>>) :
                i \in decodeInt(br) }

decodeResp(br) ==
    UNION { IF c.err # "nil" THEN {DRet(c.b, NilResp, c.err)}
            ELSE LET type == c.val[1]
                 IN  IF type \in {TypeString, TypeError, TypeInt}
                     THEN { DRet(v.b, Resp(type, v.val, NilValue), v.err) :
                            v \in decodeTextBytes(c.b) }
                     ELSE IF type = TypeBulkBytes
                     THEN { DRet(v.b, Resp(type, v.val, NilValue), v.err) :
                            v \in decodeBulkBytes(c.b) }
                     ELSE IF type = TypeArray
                     THEN { DRet(a.b, Resp(type, NilValue, a.val), a.err) :
                            a \in decodeArray(c.b) }
                     ELSE {DRet(c.b, NilResp, "bad resp type")} :
            c \in ReadByte(br) }

\* decodeSingleLineMultiBulk; Fields(b, cur) are the maximal runs of bytes
\* other than ' ' in the line.
decodeSingleLineMultiBulk(br) ==
    LET RECURSIVE Fields(_, _)
        Fields(b, cur) ==
            IF b = <<>> THEN (IF cur = <<>> THEN <<>> ELSE <<NewBulkBytes(cur)>>)
            ELSE IF Head(b) = " "
            THEN (IF cur = <<>> THEN <<>> ELSE <<NewBulkBytes(cur)>>)
                 \o Fields(Tail(b), <<>>)
            ELSE Fields(Tail(b), Append(cur, Head(b)))
    IN  { IF t.err # "nil" THEN DRet(t.b, NilValue, t.err)
          ELSE IF Fields(t.val.v, <<>>) = <<>>
          THEN DRet(t.b, NilValue, "ErrBadMultiBulkLen")
          ELSE DRet(t.b, Value(Fields(t.val.v, <<>>)), "nil") :
          t \in decodeTextBytes(br) }

\* decodeMultiBulk; bulks(c, n, multi) is its loop with n elements to go.
decodeMultiBulk(br) ==
    LET RECURSIVE bulks(_, _, _)
        bulks(c, n, multi) ==
            IF n = 0 THEN {DRet(c, Value(multi), "nil")}
            ELSE UNION { IF r.err # "nil" THEN {DRet(r.b, NilValue, r.err)}
                         ELSE IF r.val.type # TypeBulkBytes
                         THEN {DRet(r.b, NilValue, "ErrBadMultiBulkContent")}
                         ELSE bulks(r.b, n - 1, Append(multi, r.val)) :
                         r \in decodeResp(c) }
        counted(c) ==
            UNION { IF i.err # "nil" THEN {DRet(i.b, NilValue, i.err)}
                    ELSE IF i.val <= 0 THEN {DRet(i.b, NilValue, "ErrBadArrayLen")}
                    ELSE IF i.val > MaxArrayLen
                    THEN {DRet(i.b, NilValue, "ErrBadArrayLenTooLong")}
                    ELSE bulks(i.b, i.val, <<>>) :
                    i \in decodeInt(c) }
    IN  UNION { IF p.err # "nil" THEN {DRet(p.b, NilValue, p.err)}
                ELSE IF p.val[1] # TypeArray THEN decodeSingleLineMultiBulk(p.b)
                ELSE UNION { IF c.err # "nil" THEN {DRet(c.b, NilValue, c.err)}
                             ELSE counted(c.b) :
                             c \in ReadByte(p.b) } :
                p \in PeekByte(br) }

NewDecoderSize(stream, size) == [br |-> NewReaderSize(stream, size), Err |-> "nil"]

\* Decode with the sticky test left out.
Decode_retry(d) ==
    { LET e == IF r.err # "nil" THEN r.err ELSE d.Err
      IN  [d |-> [br |-> r.b, Err |-> e], val |-> r.val, err |-> e] :
      r \in decodeResp(d.br) }

Decode(d) ==
    IF d.Err # "nil" THEN {[d |-> d, val |-> NilResp, err |-> "ErrFailedDecoder"]}
    ELSE { LET e == IF r.err # "nil" THEN r.err ELSE d.Err
           IN  [d |-> [br |-> r.b, Err |-> e], val |-> r.val, err |-> e] :
           r \in decodeResp(d.br) }

DecodeMultiBulk(d) ==
    IF d.Err # "nil" THEN {[d |-> d, val |-> NilValue, err |-> "ErrFailedDecoder"]}
    ELSE { [d |-> [br |-> r.b, Err |-> IF r.err # "nil" THEN r.err ELSE d.Err],
            val |-> r.val, err |-> r.err] :
           r \in decodeMultiBulk(d.br) }

\* A caller of the Decoder.
DecoderDecode ==
    \E r \in Decode(dec) :
        /\ dec' = r.d
        /\ dret' = [op |-> "Decode", nil |-> r.val.nil, err |-> r.err]
        /\ UNCHANGED <<rdVars, wrVars, cgoVars, coreVars>>

DecoderDecodeMultiBulk ==
    \E r \in DecodeMultiBulk(dec) :
        /\ dec' = r.d
        /\ dret' = [op |-> "DecodeMultiBulk", nil |-> r.val.nil, err |-> r.err]
        /\ UNCHANGED <<rdVars, wrVars, cgoVars, coreVars>>

NoDecode == [op |-> "none", nil |-> TRUE, err |-> "nil"]

InitNoDecoder ==
    /\ dec = NewDecoderSize(<<>>, 1)
    /\ dret = NoDecode

InitDecoder ==
    /\ \E stream \in DecStreams : dec = NewDecoderSize(stream, DecBufSize)
    /\ dret = NoDecode

\* ================================================= unsafe2 slices
\* Slices made in all.
MaxSlices == 2
\* Largest length asked for and largest off-heap limit, in units of
\* MinOffheapSlice.
MaxUnits == 2
MinOffheapSlice == 16384

SliceIds == 1 .. MaxSlices
SliceSizes == {0, MinOffheapSlice - 1} \cup { k * MinOffheapSlice : k \in 1 .. MaxUnits }
OffheapLimits == { k * MinOffheapSlice : k \in 0 .. MaxUnits }

\* A Slice handed to a caller: kind "nil" is the nil Slice, "go" a goSlice,
\* "cgo" a *cgoSlice with its ptr (nil or not), len(buf), the length it was
\* made with, its finalizer, whether a caller still holds it, and the
\* cgo_free calls made on its memory.
NoSlice == [kind |-> "none", ptr |-> FALSE, len |-> 0, n |-> 0, fin |-> FALSE,
            held |-> FALSE, frees |-> 0]
NilSlice == [NoSlice EXCEPT !.kind = "nil", !.held = TRUE]
newGoSlice(n) == [NoSlice EXCEPT !.kind = "go", !.len = n, !.n = n, !.held = TRUE]

\* newCGoSlice: the returns (slice, allocOffheapBytes afterwards); cgo_malloc
\* returns the memory or nil.
newCGoSlice(n, force, max, alloc) ==
    LET after == alloc + n
    IN  IF ~force /\ after > max
        THEN {[s |-> NilSlice, alloc |-> after - n]}
        ELSE {[s |-> NilSlice, alloc |-> after - n],
              [s |-> [kind |-> "cgo", ptr |-> TRUE, len |-> n, n |-> n, fin |-> TRUE,
                      held |-> TRUE, frees |-> 0],
               alloc |-> after]}

reclaim_noGuard(s, alloc) ==
    [s |-> [s EXCEPT !.frees = s.frees + 1, !.ptr = FALSE, !.len = 0, !.fin = FALSE],
     alloc |-> alloc - s.n]

\* cgoSlice.reclaim
reclaim(s, alloc) ==
    IF ~s.ptr THEN [s |-> s, alloc |-> alloc]
    ELSE [s |-> [s EXCEPT !.frees = s.frees + 1, !.ptr = FALSE, !.len = 0,
                          !.fin = FALSE],
          alloc |-> alloc - s.len]

made(r) ==
    /\ ncgo' = ncgo + 1
    /\ cgo' = [cgo EXCEPT ![ncgo + 1] = r.s]
    /\ allocOffheapBytes' = r.alloc
    /\ UNCHANGED <<maxOffheapBytes, rdVars, wrVars, decVars, coreVars>>

MakeSlice ==
    /\ ncgo < MaxSlices
    /\ \E n \in SliceSizes :
        IF n >= MinOffheapSlice
        THEN \E r \in newCGoSlice(n, FALSE, maxOffheapBytes, allocOffheapBytes) :
                IF r.s.kind # "nil" THEN made(r)
                ELSE made([s |-> newGoSlice(n), alloc |-> r.alloc])
        ELSE made([s |-> newGoSlice(n), alloc |-> allocOffheapBytes])

MakeOffheapSlice ==
    /\ ncgo < MaxSlices
    /\ \E n \in SliceSizes :
        \E r \in newCGoSlice(n, TRUE, maxOffheapBytes, allocOffheapBytes) : made(r)

\* FreeSlice(s) by a caller that holds s.
FreeSlice(i) ==
    /\ cgo[i].held
    /\ cgo[i].kind \in {"nil", "cgo"}
    /\ LET r == IF cgo[i].kind # "nil" THEN reclaim(cgo[i], allocOffheapBytes)
                ELSE [s |-> cgo[i], alloc |-> allocOffheapBytes]
       IN  /\ cgo' = [cgo EXCEPT ![i] = r.s]
           /\ allocOffheapBytes' = r.alloc
    /\ UNCHANGED <<ncgo, maxOffheapBytes, rdVars, wrVars, decVars, coreVars>>

\* The caller drops its last reference to s.
dropSlice(i) ==
    /\ cgo[i].held
    /\ cgo' = [cgo EXCEPT ![i].held = FALSE]
    /\ UNCHANGED <<ncgo, allocOffheapBytes, maxOffheapBytes, rdVars, wrVars,
                   decVars, coreVars>>

\* The garbage collector runs the finalizer of an unreachable cgoSlice.
finalizer(i) ==
    /\ ~cgo[i].held
    /\ cgo[i].fin
    /\ LET r == reclaim([cgo[i] EXCEPT !.fin = FALSE], allocOffheapBytes)
       IN  /\ cgo' = [cgo EXCEPT ![i] = r.s]
           /\ allocOffheapBytes' = r.alloc
    /\ UNCHANGED <<ncgo, maxOffheapBytes, rdVars, wrVars, decVars, coreVars>>

InitNoSlices ==
    /\ cgo = [i \in SliceIds |-> NoSlice]
    /\ ncgo = 0
    /\ allocOffheapBytes = 0
    /\ maxOffheapBytes = 0

InitSlices ==
    /\ cgo = [i \in SliceIds |-> NoSlice]
    /\ ncgo = 0
    /\ allocOffheapBytes = 0
    /\ maxOffheapBytes \in OffheapLimits

\* -------------------------------------------------------- specifications
InitLib == InitNoReader /\ InitNoWriter /\ InitNoDecoder /\ InitNoSlices

InitConn ==
    /\ reqs = [r \in ReqIds |-> NoReq]
    /\ nreq = 0
    /\ input = <<>>
    /\ inputClosed = FALSE
    /\ closed = FALSE
    /\ state = 0
    /\ fails = 0
    /\ pc = "check"
    /\ wr = 0
    /\ werr = FALSE
    /\ drainI = 0
    /\ round = 0
    /\ tasks = [k \in Rounds |-> <<>>]
    /\ tasksClosed = [k \in Rounds |-> FALSE]
    /\ wire = [k \in Rounds |-> <<>>]
    /\ rpc = [k \in Rounds |-> "idle"]
    /\ rr = [k \in Rounds |-> 0]
    /\ ppc = "idle"
    /\ pr = 0
    /\ cpc = "idle"
    /\ kpc = "idle"
    /\ km = 0
    /\ cbq = <<>>
    /\ cbpc = "idle"
    /\ cbm = 0
    /\ socks = [k \in Rounds |-> 0]
    /\ nopen = 0
    /\ probeRound = [m \in ReqIds |-> 0]

InitCore == InitConn /\ InitPool /\ InitNoCall

Init == InitCore /\ InitLib

\* The request pipeline: a router that submits requests, the worker, Close.
Next ==
    \/ PushBack
    \/ Close
    \/ run
    \/ \E k \in Rounds : loopReader(k)

Spec == Init /\ [][Next]_vars

\* The health protocol: the router, KeepAlive with its callbacks, and the
\* worker, until Close is called.
NextKeepAlive ==
    \/ PushBack
    \/ KeepAlive
    \/ keepAliveCallback
    \/ run
    \/ \E k \in Rounds : loopReader(k)

SpecKeepAlive == Init /\ [][NextKeepAlive]_vars

\* A worker that is never closed: the router, the run goroutine and the
\* readers.  The scheduler runs a goroutine that can take a step; a dial, a
\* read and the backoff timer all return in bounded time.
NextRetry ==
    \/ PushBack
    \/ run
    \/ \E k \in Rounds : loopReader(k)

SpecRetry ==
    /\ Init
    /\ [][NextRetry]_vars
    /\ WF_vars(run)
    /\ \A k \in Rounds : WF_vars(loopReader(k))

\* The whole life of an idle worker: KeepAlive with its callbacks, the run
\* goroutine with its readers, and Close.
NextState ==
    \/ KeepAlive
    \/ keepAliveCallback
    \/ Close
    \/ run
    \/ \E k \in Rounds : loopReader(k)

SpecState == Init /\ [][NextState]_vars

\* The life of a worker that serves MaxSubmit requests and is closed, with
\* the scheduling of SpecRetry: a goroutine that can take a step is run, and
\* a read from a socket returns in bounded time.
NextRound ==
    \/ PushBackFew
    \/ Close
    \/ run
    \/ \E k \in Rounds : loopReader(k)

SpecRound ==
    /\ Init
    /\ [][NextRound]_vars
    /\ WF_vars(run)
    /\ \A k \in Rounds : WF_vars(loopReader(k))

\* A never-closed, idle worker under a burst of keepalive probes.
NextProbes ==
    \/ KeepAliveBurst
    \/ keepAliveCallback
    \/ run
    \/ \E k \in Rounds : loopReader(k)

SpecProbes == Init /\ [][NextProbes]_vars

\* A never-closed worker under a burst of requests.
NextPipeline ==
    \/ PushBackBurst
    \/ run
    \/ \E k \in Rounds : loopReader(k)

SpecPipeline == Init /\ [][NextPipeline]_vars

\* The pool: clients that Retain and Release, and the workers' run goroutines.
NextPool ==
    \/ poolRetain
    \/ sharedRetain
    \/ Release
    \/ releaseCloseInput
    \/ releaseSetClosed
    \/ releaseDelete
    \/ \E w \in Workers : workerRun(w)

\* The scheduler runs a goroutine that can take a step.
SpecPool ==
    /\ Init
    /\ [][NextPool]_vars
    /\ \A w \in Workers : WF_vars(workerCheck(w)) /\ WF_vars(workerRoundEnd(w))

\* One call of BackendConn on every worker-state vector, seed and must.
NextSelect == selectBackendConn

InitCall == InitConn /\ InitPool /\ InitSelect /\ InitLib

SpecSelect == InitCall /\ [][NextSelect]_vars

\* Calls of every method of a Reader, on every stream and buffer size.
NextReader ==
    \/ ReaderRead
    \/ ReaderReadByte
    \/ ReaderPeekByte
    \/ ReaderReadSlice
    \/ \E delim \in Bytes : ReaderReadBytes(delim)
    \/ ReaderReadFull

InitReaderCalls ==
    InitCore /\ InitReader /\ InitNoWriter /\ InitNoDecoder /\ InitNoSlices

SpecReader == InitReaderCalls /\ [][NextReader]_vars

\* Successive ReadBytes('\n') calls on every stream and buffer size.
NextReadBytes == ReaderReadBytes(Newline)

SpecReadBytes == InitReaderCalls /\ [][NextReadBytes]_vars

\* Calls of every method of a Writer, on every buffer size.
NextWriter ==
    \/ WriterWrite
    \/ WriterWriteByte
    \/ WriterWriteString
    \/ WriterFlush

InitWriterCalls ==
    InitCore /\ InitNoReader /\ InitWriter /\ InitNoDecoder /\ InitNoSlices

SpecWriter == InitWriterCalls /\ [][NextWriter]_vars

\* Decode and DecodeMultiBulk calls on every stream of frames.
NextDecoder ==
    \/ DecoderDecode
    \/ DecoderDecodeMultiBulk

InitDecoderCalls ==
    InitCore /\ InitNoReader /\ InitNoWriter /\ InitDecoder /\ InitNoSlices

SpecDecoder == InitDecoderCalls /\ [][NextDecoder]_vars

\* Callers that make, free and drop slices, and the garbage collector.
NextSlices ==
    \/ MakeSlice
    \/ MakeOffheapSlice
    \/ \E i \in SliceIds : FreeSlice(i)
    \/ \E i \in SliceIds : dropSlice(i)
    \/ \E i \in SliceIds : finalizer(i)

InitSliceCalls ==
    InitCore /\ InitNoReader /\ InitNoWriter /\ InitNoDecoder /\ InitSlices

SpecSlices == InitSliceCalls /\ [][NextSlices]_vars


\* ======================================================== the claims
\* Where a request is: the number of places holding it.
InSeq(q, r) == Cardinality({ i \in 1 .. Len(q) : q[i] = r })
Holders(r) ==
    InSeq(input, r)
    + (IF ppc = "send" /\ pr = r THEN 1 ELSE 0)
    + (IF kpc = "send" /\ km = r THEN 1 ELSE 0)
    + (IF pc = "send" /\ wr = r THEN 1 ELSE 0)
    + Cardinality({ k \in Rounds : InSeq(tasks[k], r) = 1 })
    + Cardinality({ k \in Rounds : rr[k] = r })
Allocated == 1 .. nreq
\* PushBack(r) has returned: r is no longer in the hand of its caller.
Pushed(r) ==
    /\ r \in Allocated
    /\ ~(ppc \in {"send", "add"} /\ pr = r)
    /\ ~(kpc = "send" /\ km = r)
Completed(r) == reqs[r].done > 0
\* The step completes request r.
Completes(r) == reqs'[r].done > reqs[r].done

\* C1: within a round the k-th reply decoded from the socket is given to the
\* k-th request the writer put on tasks: every request completed with a
\* response holds the reply the backend produced for that very request, and
\* the task in a reader's hand is the one the next reply on its socket answers.
C1_PipelineOrder ==
    /\ \A r \in Allocated :
         (Completed(r) /\ reqs[r].Err = "nil") => reqs[r].Resp.to = r
    /\ \A k \in Rounds :
         rpc[k] = "decode" => (wire[k] # <<>> /\ Head(wire[k]) = rr[k])

\* Two requests pipelined in one round, both answered.
C1_Witness ==
    /\ round = 1
    /\ MaxReq >= 2
    /\ \A r \in 1 .. 2 :
         Completed(r) /\ reqs[r].Err = "nil" /\ reqs[r].Resp.to = r

\* C2: a request is in exactly one place (a queue or a goroutine's hand)
\* until it is completed, and it is completed exactly once: no request is
\* completed twice and none disappears after it was dequeued.
C2_ExactlyOnce ==
    \A r \in Allocated :
        /\ reqs[r].done <= 1
        /\ Holders(r) + reqs[r].done = 1

\* Both requests went through the worker, one failed by the writer and one
\* by a drain.
C2_Witness ==
    \E r1, r2 \in Allocated :
        /\ reqs[r1].done = 1 /\ reqs[r1].Err = "failure"
        /\ reqs[r2].done = 1 /\ reqs[r2].Err = "reset"

\* C3 (as the claim states it, in the form a finite run refutes): once Close
\* has returned and run has exited, no request enqueued before Close is left
\* waiting in input, where nothing will ever complete it.
C3_NoneLeftAfterClose ==
    (cpc = "done" /\ pc = "exit") => input = <<>>

\* C4 (as the claim states it): once the input channel is closed, every
\* request that is completed is completed with `backend conn reset`.
C4_AllReset ==
    [][\A r \in ReqIds :
         (inputClosed /\ Completes(r)) => reqs'[r].Err = "reset"]_vars

\* C4 (amended): once the input channel is closed, only requests that were
\* waiting in input or in flight are completed, each at most once; a request
\* gets `backend conn reset` exactly when a drain takes it (the writer's
\* deferred drain, the backoff, the reader's deferred drain), and a request
\* that a live round transmits gets the backend's reply to it (nil error) or
\* `backend conn failure`; a broken one gets `request is broken`.
C4_CompletionsAfterClose ==
    [][\A r \in ReqIds :
         (inputClosed /\ Completes(r)) =>
            /\ reqs'[r].done = 1
            /\ Holders(r) = 1
            /\ \/ /\ reqs'[r].Err = "reset"
                  /\ \/ pc \in {"drain", "delay_select"} /\ input # <<>> /\ Head(input) = r
                     \/ \E k \in Rounds :
                          rpc[k] = "drain" /\ tasks[k] # <<>> /\ Head(tasks[k]) = r
               \/ /\ reqs'[r].Err = "nil"
                  /\ \E k \in Rounds : rpc[k] = "decode" /\ rr[k] = r
                  /\ reqs'[r].Resp.to = r
               \/ /\ reqs'[r].Err = "failure"
                  /\ \/ \E k \in Rounds : rpc[k] = "decode" /\ rr[k] = r
                     \/ pc = "loop" /\ input # <<>> /\ Head(input) = r
               \/ /\ reqs'[r].Err = "broken"
                  /\ reqs[r].broken
                  /\ pc = "loop" /\ input # <<>> /\ Head(input) = r]_vars

\* Close has been called on a connected worker with one request waiting in
\* input and one in flight.
C4_Witness ==
    /\ inputClosed
    /\ pc = "loop"
    /\ Len(input) = 1
    /\ \E k \in Rounds : rr[k] # 0 /\ rpc[k] = "decode"

\* C5: the Batch counter of a request never goes negative, and once PushBack
\* has returned the counter is zero only if the request has been completed
\* (so a Batch.Wait started then cannot return earlier).
C5_AddBeforeVisible ==
    \A r \in Allocated :
        /\ reqs[r].wg >= 0
        /\ (Pushed(r) /\ reqs[r].batch /\ reqs[r].wg = 0) => Completed(r)

\* A request with a Batch has been pushed, completed, and its counter is back
\* at zero, while another one waits in input with its counter at one.
C5_Witness ==
    \E r1, r2 \in Allocated :
        /\ reqs[r1].batch /\ Completed(r1) /\ reqs[r1].wg = 0
        /\ reqs[r2].batch /\ InSeq(input, r2) = 1 /\ reqs[r2].wg = 1

\* C6 (state part): while a shared connection's refcount is above zero its
\* map entry is present and none of its workers is closed; once its refcount
\* is back at zero and Release has returned, its entry is gone and Close has
\* been called on every one of its workers; when every Retain has been
\* matched by a Release the pool map is empty.
PoolBalanced ==
    /\ \A h \in 1 .. nshared :
         /\ shared[h].refcnt >= 0
         /\ shared[h].refcnt > 0 =>
              /\ pool[shared[h].addr] = h
              /\ \A w \in WorkersOf(h) :
                   ~workers[w].closed /\ ~workers[w].inputClosed
         /\ (shared[h].refcnt = 0 /\ rel.h # h) =>
              /\ pool[shared[h].addr] # h
              /\ \A w \in WorkersOf(h) :
                   workers[w].closed /\ workers[w].inputClosed
    /\ ((\A h \in 1 .. nshared : shared[h].refcnt = 0) /\ rel.step = "idle") =>
         \A a \in Addrs : pool[a] = 0

\* C6: for serialized Retain and Release calls the pool is balanced in every
\* state (PoolBalanced), and the run loop of every worker that Close was
\* called on eventually exits: from some point on, every closed worker has
\* exited (closed and exited are both stable).
C6_BalancedPool ==
    /\ []PoolBalanced
    /\ <>[](\A w \in Workers : workers[w].closed => workers[w].pc = "exit")

\* Two shared connections were created, retained and released in balance:
\* the map is empty and every worker has been closed and has exited.
C6_Witness ==
    /\ nshared = MaxShared
    /\ rel.step = "idle"
    /\ \A h \in Shared : shared[h].refcnt = 0
    /\ \A a \in Addrs : pool[a] = 0
    /\ \A w \in Workers : workers[w].closed /\ workers[w].pc = "exit"

\* C7: a call that panics was made on a handle whose refcount is zero and
\* changes nothing; a shared connection whose refcount is zero (its Release
\* done) keeps refcount zero and none of its workers is closed again; and a
\* map entry is removed only by the Release that brought that very entry's
\* refcount to zero, so a newer entry for the same address stays.
C7_OverRelease ==
    [][/\ \A h \in 1 .. nshared :
            (shared[h].refcnt = 0 /\ rel.h # h) =>
               /\ shared'[h] = shared[h]
               /\ \A w \in WorkersOf(h) :
                    /\ workers'[w].closed = workers[w].closed
                    /\ workers'[w].inputClosed = workers[w].inputClosed
       /\ \A a \in Addrs :
            (pool[a] # 0 /\ pool'[a] # pool[a]) =>
               /\ rel.step = "delete" /\ rel.h = pool[a]
               /\ pool'[a] = 0
       /\ (panicked' # panicked) =>
            /\ shared[panicked'].refcnt = 0
            /\ UNCHANGED <<pool, shared, nshared, workers, rel>>]_vars

\* A call on the first handle panicked after its refcount reached zero,
\* while a newer entry for the same address is in the map.
C7_Witness ==
    /\ panicked = 1
    /\ shared[1].refcnt = 0
    /\ nshared = 2
    /\ shared[2].addr = shared[1].addr
    /\ pool[shared[1].addr] = 2
    /\ shared[2].refcnt > 0

\* The positions j of the cyclic order that starts at index first whose
\* worker is Connected.
Hits(conns, first) ==
    { j \in 0 .. (Len(conns) - 1) :
        conns[((first + j) % Len(conns)) + 1] = stateConnected }
Least(S) == CHOOSE x \in S : \A y \in S : x <= y
\* What the claim says the call returns when the order starts at index first.
Selected(conns, first, must) ==
    IF Len(conns) = 1
    THEN IF must \/ conns[1] = stateConnected THEN Conn(0) ELSE NoConn
    ELSE IF Hits(conns, first) # {}
         THEN Conn((first + Least(Hits(conns, first))) % Len(conns))
         ELSE IF must THEN Conn(0) ELSE NoConn

\* C8 (as the claim states it): the cyclic order starts at (seed+1) mod N
\* for every seed of the unsigned type.
C8_StartsAtSeedPlusOne ==
    sres.called =>
        sres = Selected(sconns, (sseed + 1) % Len(sconns), smust)

\* C8 (amended): the cyclic order starts at ((seed+1) mod 2^w) mod N, w the
\* width of uint, which is index 0 for the largest seed; the first Connected
\* worker in that order is returned, each worker examined once; with none
\* Connected the result is nil if must is false and conns[db][0] otherwise;
\* with parallel 1 it is single[db] when must or Connected, else nil; and
\* with must the result is never nil.
C8_StartsAtWrappedSeed ==
    sres.called =>
        /\ sres = Selected(sconns, ((sseed + 1) % UintMod) % Len(sconns), smust)
        /\ smust => ~sres.isnil

\* The call was made with the largest seed on three workers, all Connected,
\* and returned conns[db][0].
C8_Witness ==
    /\ sres.called
    /\ Len(sconns) = 3
    /\ sseed = UintMod - 1
    /\ \A i \in 1 .. 3 : sconns[i] = stateConnected
    /\ sres = Conn(0)

\* The claim's words for a stale reply: an error reply whose payload begins
\* with MASTERDOWN or LOADING.
StaleReply(resp) ==
    /\ resp.type = "error"
    /\ Len(resp.value) >= 1
    /\ resp.value[1] \in {"MASTERDOWN", "LOADING"}

\* C9: whenever loopReader decodes a reply, the task in hand is completed with
\* that reply and a nil error; the state becomes DataStale when it was
\* Connected and the reply is an error beginning with MASTERDOWN or LOADING,
\* and is unchanged otherwise.
C9_StaleReply ==
    [][\A k \in Rounds :
         (rpc[k] = "decode" /\ rpc'[k] = "recv") =>
            /\ reqs'[rr[k]].done = reqs[rr[k]].done + 1
            /\ reqs'[rr[k]].Err = "nil"
            /\ reqs'[rr[k]].Resp \in Replies(reqs[rr[k]].kind, rr[k])
            /\ state' = IF state = stateConnected /\ StaleReply(reqs'[rr[k]].Resp)
                        THEN stateDataStale
                        ELSE state]_vars

\* The state is DataStale and the request answered by -MASTERDOWN holds that
\* reply with no error.
C9_Witness ==
    /\ state = stateDataStale
    /\ \E r \in Allocated :
         /\ reqs[r].done = 1
         /\ reqs[r].Err = "nil"
         /\ reqs[r].Resp.type = "error"
         /\ reqs[r].Resp.value[1] = "MASTERDOWN"

\* The INFO reply lets the worker recover: a bulk reply whose info map has
\* neither master_link_status = down nor loading = 1.
InfoHealthy(resp) ==
    /\ resp.type = "bulk"
    /\ InfoGet(resp.value, <<"master_link_status">>) # <<"down">>
    /\ InfoGet(resp.value, <<"loading">>) # <<"1">>

\* C10: the state goes from DataStale to Connected only in a step of the
\* keepalive callback, whose INFO probe has been completed without error with
\* a healthy bulk reply; a callback whose probe failed or was answered
\* otherwise leaves the state unchanged.
C10_RecoverOnlyByKeepAlive ==
    [][/\ (state = stateDataStale /\ state' = stateConnected) =>
            /\ cbpc = "wait" /\ cbpc' = "idle"
            /\ reqs[cbm].kind = "info"
            /\ reqs[cbm].done = 1
            /\ reqs[cbm].Err = "nil"
            /\ InfoHealthy(reqs[cbm].Resp)
       /\ (cbpc = "wait" /\ cbpc' = "idle"
              /\ ~(reqs[cbm].Err = "nil" /\ InfoHealthy(reqs[cbm].Resp))) =>
            state' = state]_vars

\* In its first round the worker went stale, was probed, and the callback
\* brought it back to Connected.
C10_Witness ==
    /\ round = 1
    /\ pc = "loop"
    /\ state = stateConnected
    /\ kpc = "idle" /\ cbpc = "idle" /\ cbq = <<>>
    /\ \E m \in Allocated :
         /\ reqs[m].kind = "info"
         /\ reqs[m].done = 1
         /\ reqs[m].Err = "nil"
         /\ InfoHealthy(reqs[m].Resp)

\* q is an initial part of q2.
IsPrefix(q, q2) == Len(q) <= Len(q2) /\ SubSeq(q2, 1, Len(q)) = q

C12_DisconnectedPushCompleted ==
    /\ [][\A r \in ReqIds :
            (/\ Completes(r)
             /\ pc \in {"drain", "delay_select"}
             /\ input # <<>> /\ Head(input) = r)
            => reqs'[r].Err = "reset"]_vars
    /\ <>[](\A r \in Allocated : Pushed(r) => Completed(r))

\* The worker never connected and is in backoff, and a request pushed to it
\* has been completed with `backend conn reset`.
C12_Witness ==
    /\ round = 0
    /\ fails > RetryLimit
    /\ pc = "delay_check"
    /\ \E r \in Allocated :
         Pushed(r) /\ reqs[r].done = 1 /\ reqs[r].Err = "reset"

\* Requests of round k that have been encoded for the backend and are not
\* yet completed: in the writer's hand waiting to go on tasks, on tasks, or
\* in the reader's hand.
Depth(k) ==
    Len(tasks[k])
    + (IF rr[k] # 0 THEN 1 ELSE 0)
    + (IF pc = "send" /\ round = k THEN 1 ELSE 0)

C20_ArrivalEndsWait ==
    [][\A r \in ReqIds :
         (pc = "delay_select" /\ Completes(r) /\ input # <<>> /\ Head(input) = r)
         => (reqs'[r].Err = "reset" /\ pc' = "check")]_vars

\* C20 (amended): after a failed round the worker increments retry.fails
\* (the model stops counting above the limit); while fails <= 10 it starts
\* the next round without waiting; once fails > 10 it waits: the wait ends
\* when the timer fires, when the worker is closed, or when input is closed
\* and empty; a request arriving on input during the wait is completed at
\* once with `backend conn reset` and the wait goes on.  A round that ends
\* without error leaves fails alone, and a round that connects resets it to 0.
C20_RetryAndBackoff ==
    [][/\ (pc = "drain" /\ pc' # "drain") =>
            IF werr
            THEN /\ fails' = (IF fails > RetryLimit THEN fails ELSE fails + 1)
                 /\ pc' = (IF fails + 1 <= RetryLimit THEN "check" ELSE "delay_check")
            ELSE fails' = fails /\ pc' = "check"
       /\ (pc = "delay_check" /\ pc' # pc) =>
            /\ fails > RetryLimit
            /\ pc' = (IF closed THEN "check" ELSE "delay_select")
       /\ (pc = "delay_select" /\ pc' # pc) =>
            \/ pc' = "check" /\ reqs' = reqs /\ input' = input
            \/ /\ pc' = "delay_check"
               /\ input # <<>>
               /\ input' = Tail(input)
               /\ reqs'[Head(input)].Err = "reset"
               /\ reqs'[Head(input)].done = reqs[Head(input)].done + 1
       /\ (pc = "dial" /\ pc' = "loop") => fails' = 0
       /\ fails' # fails => pc \in {"drain", "dial"}
       /\ pc' = "delay_check" => pc \in {"drain", "delay_select", "delay_check"}]_vars

\* After a round that connected, the worker failed more than ten times in a
\* row and waits in backoff, where a request that arrived was reset.
C20_Witness ==
    /\ round >= 1
    /\ pc = "delay_select"
    /\ fails > RetryLimit
    /\ ~closed
    /\ \E r \in Allocated : reqs[r].done = 1 /\ reqs[r].Err = "reset"

\* ------------------------------------------------------------------ C13
\* The bytes a Reader has still to hand out: the unread part of its buffer,
\* then what its underlying reader holds.
Logical(b) == Slice(b.buf, b.rpos, b.wpos) \o b.rd.s

\* C13: a ReadSlice(delim) call that returns a nil error returns the slice
\* buf[rpos:limit], which is the next bytes of the stream up to and including
\* the first delim, and leaves rpos at limit; one that returns ErrBufferFull
\* returns the whole buffer, holding the next len(buf) bytes of the stream
\* with no delim among them, and leaves rpos = wpos.
C13_ReadSlice ==
    [][rret'.op = "ReadSlice" =>
        LET val == rret'.val
            delim == rret'.delim
        IN  /\ rret'.err = "nil" =>
                /\ val # <<>>
                /\ val[Len(val)] = delim
                /\ \A i \in 1 .. (Len(val) - 1) : val[i] # delim
                /\ reader'.rpos - Len(val) >= 0
                /\ val = Slice(reader'.buf, reader'.rpos - Len(val), reader'.rpos)
                /\ val \o Logical(reader') = Logical(reader)
            /\ rret'.err = "ErrBufferFull" =>
                /\ val = reader'.buf
                /\ \A i \in 1 .. Len(val) : val[i] # delim
                /\ reader'.rpos = reader'.wpos
                /\ reader'.wpos = Len(reader'.buf)
                /\ val \o Logical(reader') = Logical(reader)
            /\ rret'.err \notin {"nil", "ErrBufferFull"} =>
                /\ val = <<>>
                /\ rret'.err = reader'.err]_vars

\* A ReadSlice has returned ErrBufferFull after an earlier call returned bytes
\* ending in the same delimiter.
C13_Witness ==
    /\ rret.op = "ReadSlice"
    /\ rret.err = "ErrBufferFull"
    /\ Len(rgot) > Len(rret.val)
    /\ rgot[Len(rgot) - Len(rret.val)] = rret.delim

\* ------------------------------------------------------------------ C14
\* The delimiter-terminated records of a stream, concatenated: the stream up
\* to its last delimiter.
CompleteRecords(s) ==
    LET ends == { i \in 1 .. Len(s) : s[i] = Newline }
    IN  IF ends = {} THEN <<>>
        ELSE SubSeq(s, 1, CHOOSE i \in ends : \A j \in ends : j <= i)

\* C14: when ReadBytes('\n') reports the end of the stream, the successive
\* calls have returned exactly the delimiter-terminated records of the
\* stream, in order, whatever the buffer size and the split of the stream
\* into reads.
C14_AllRecordsReturned ==
    (rret.op = "ReadBytes" /\ rret.err = "EOF") => rgot = CompleteRecords(rsrc)

\* ------------------------------------------------------------------ C15
\* C15: the cursors of a Reader satisfy 0 <= rpos <= wpos <= len(buf) after
\* every call, and once its sticky error is set every call returns that
\* error with no bytes and leaves the Reader and its underlying reader as
\* they were.
C15_CursorsAndStickyError ==
    /\ [](/\ 0 <= reader.rpos
          /\ reader.rpos <= reader.wpos
          /\ reader.wpos <= Len(reader.buf))
    /\ [][reader.err # "nil" =>
            /\ reader' = reader
            /\ rret'.err = reader.err
            /\ rret'.val = <<>>]_vars

\* ReadFull has returned the sticky error of a Reader that still holds
\* unread bytes.
C15_Witness ==
    /\ reader.err # "nil"
    /\ rret.op = "ReadFull"
    /\ rret.n > 0
    /\ rret.err = reader.err
    /\ buffered(reader) > 0

\* ------------------------------------------------------------------ C16
\* C16: while the underlying writer has taken every write in full, the bytes
\* it was handed followed by buf[0:wpos] are the bytes written, in order,
\* with 0 <= wpos <= len(buf); a Flush leaves wpos = 0; and Write hands p to
\* the underlying writer unbuffered only when the buffer is empty and p is
\* longer than the space available.
C16_WriterOrder ==
    /\ 0 <= writer.wpos
    /\ writer.wpos <= Len(writer.buf)
    /\ writer.err = "nil" =>
        /\ Flat(writer.wr) \o Slice(writer.buf, 0, writer.wpos) = wall
        /\ wret.op = "Flush" => writer.wpos = 0
    /\ \A d \in wret.direct : d.wpos = 0 /\ d.len > d.free

\* A Write has bypassed the buffer after an earlier call's bytes were flushed.
C16_Witness ==
    /\ wret.op = "Write"
    /\ wret.direct # {}
    /\ writer.err = "nil"
    /\ Len(writer.wr) >= 2
    /\ Len(wall) = MaxWritten

\* ------------------------------------------------------------------ C17
\* C17: once Decode or DecodeMultiBulk has returned an error, Err is set and
\* stays set, and every later call returns ErrFailedDecoder with a nil
\* result and leaves the decoder and its input as they were.
C17_FailedDecoder ==
    /\ [](dret.err # "nil" => dec.Err # "nil")
    /\ [][dec.Err # "nil" =>
            /\ dec' = dec
            /\ dret'.err = "ErrFailedDecoder"
            /\ dret'.nil]_vars

\* DecodeMultiBulk has been refused on a failed decoder whose reader is
\* sound and whose input is not used up.
C17_Witness ==
    /\ dret.op = "DecodeMultiBulk"
    /\ dret.err = "ErrFailedDecoder"
    /\ dec.Err = "ErrBadCRLFEnd"
    /\ dec.br.err = "nil"
    /\ Logical(dec.br) # <<>>

\* ------------------------------------------------------------------ C18
\* The total length of the off-heap slices not yet reclaimed.
RECURSIVE Unreclaimed(_)
Unreclaimed(ids) ==
    IF ids = {} THEN 0
    ELSE LET i == CHOOSE j \in ids : TRUE
         IN  (IF cgo[i].kind = "cgo" /\ cgo[i].ptr THEN cgo[i].n ELSE 0)
             + Unreclaimed(ids \ {i})

\* C18: the memory of an off-heap slice is freed at most once, and exactly
\* once when the slice was freed or was dropped and finalized; the counter is
\* decremented with it, so that OffheapBytes() equals the total length of
\* the off-heap slices not yet reclaimed.
C18_ReleasedOnce ==
    /\ \A i \in SliceIds :
        /\ cgo[i].frees <= 1
        /\ cgo[i].kind = "cgo" => (cgo[i].ptr <=> cgo[i].frees = 0)
        /\ (cgo[i].kind = "cgo" /\ ~cgo[i].held /\ ~cgo[i].fin) => cgo[i].frees = 1
    /\ allocOffheapBytes = Unreclaimed(SliceIds)

\* One slice was freed and then dropped, another is still allocated.
C18_Witness ==
    \E i, j \in SliceIds :
        /\ cgo[i].kind = "cgo" /\ cgo[i].frees = 1 /\ ~cgo[i].held /\ cgo[i].n > 0
        /\ cgo[j].kind = "cgo" /\ cgo[j].ptr /\ ~cgo[j].held
        /\ allocOffheapBytes = cgo[j].n
        /\ allocOffheapBytes > maxOffheapBytes

\* ------------------------------------------------------------------ C24
\* C24: the state of a round is changed only by events of that round.  A
\* loopReader step that decodes a reply changes bc.state only if the reader
\* belongs to the current round, and a keepalive callback changes bc.state
\* only if its probe was issued in the current round.
C24_OwnRoundOnly ==
    [][ /\ \A k \in Rounds :
             (rpc[k] = "decode" /\ rpc'[k] = "recv" /\ state' # state) => k = round
        /\ (cbpc = "wait" /\ cbpc' = "idle" /\ state' # state)
             => probeRound[cbm] = round ]_vars

\* ------------------------------------------------------------------ C21
\* Round k's writer has returned from loopWriter.
WriterExited(k) ==
    \/ k < round
    \/ k = round /\ pc \notin {"loop", "send", "defer_state", "defer_close"}

\* C21: every socket that was dialled is closed exactly once and every tasks
\* channel is closed exactly once, by the writer.  No socket is closed twice
\* or before it is dialled; a reader that has left its loop has closed its
\* socket; the only open sockets are those of rounds whose reader is still
\* in its loop (so a socket rejected by auth or select-db was closed once);
\* a tasks channel changes only by the writer's deferred close, which finds
\* it open; a writer that has returned has closed its channel; and once a
\* round's writer has returned, the round's socket is eventually closed.
C21_ReleasedOnce ==
    /\ [](\A k \in Rounds :
            /\ socks[k] <= 1
            /\ (k > round => socks[k] = 0 /\ ~tasksClosed[k])
            /\ (rpc[k] \in {"drain", "exit"} => socks[k] = 1)
            /\ (WriterExited(k) => tasksClosed[k]))
    /\ [](nopen = Cardinality({k \in 1 .. round : socks[k] = 0}))
    /\ [](pc = "defer_close" => ~tasksClosed[round])
    /\ [][\A k \in Rounds :
            tasksClosed'[k] # tasksClosed[k]
              => pc = "defer_close" /\ k = round /\ tasksClosed'[k]]_vars
    /\ <>[](\A k \in Rounds : WriterExited(k) => socks[k] = 1)

\* Two rounds have run and ended, one of them on a write error, and the
\* worker has exited after Close: both sockets and both channels are closed.
C21_Witness ==
    /\ round = 2
    /\ pc = "exit"
    /\ \A k \in 1 .. 2 : socks[k] = 1 /\ tasksClosed[k] /\ rpc[k] = "exit"
    /\ \E m \in 1 .. nreq : reqs[m].Err = "failure"
    /\ nopen = 0

\* ------------------------------------------------------------------ C23
\* IsConnected: "return bc.state.Get() == stateConnected".
IsConnected == state = stateConnected

\* The run goroutine is inside loopWriter between bc.state.Set(stateConnected)
\* and the deferred bc.state.Set(0).
InWriterWindow == round >= 1 /\ pc \in {"loop", "send", "defer_state"}

\* C23: the state is nonzero only while a writer round is between its
\* Set(stateConnected) and its deferred Set(0).  While the worker dials or
\* authenticates, drains, waits in backoff or has exited, the state is
\* Disconnected and IsConnected() is false, whatever the readers and the
\* keepalive callbacks do; and every step that enters DataStale leaves
\* Connected.
C23_StateWindow ==
    /\ [](state \in {0, stateConnected, stateDataStale})
    /\ [](state # 0 => InWriterWindow)
    /\ [](pc \in {"check", "dial", "defer_close", "drain", "delay_check",
                  "delay_select", "exit"} => state = 0 /\ ~IsConnected)
    /\ [][state' = stateDataStale /\ state # stateDataStale
            => state = stateConnected]_vars

\* The worker has exited after Close while a keepalive callback whose INFO
\* reply reports a healthy backend is still to run: its swap finds the state
\* Disconnected.
C23_Witness ==
    /\ pc = "exit"
    /\ closed
    /\ state = 0
    /\ cbpc = "wait"
    /\ reqs[cbm].wg = 0
    /\ keepAliveVerdict(reqs[cbm]) = "swap"

\* ------------------------------------------------------------------ C22
\* C22: when KeepAlive, on a DataStale worker, has pushed its INFO probe and
\* finds the keepalive callback channel holding its full capacity of pending
\* callbacks, it does not block: the call can return at once.
C22_OverflowDoesNotBlock ==
    (kpc = "callback" /\ Len(cbq) = CallbackCap) => ENABLED KeepAliveCallbackSend

====
